---- MODULE Spec2Model ----
(***************************************************************************)
(* DotSense: the client-side learning engine (learningCalculations.js),    *)
(* its mutable thresholds (learningConstants.js) and the letter-step       *)
(* request of the API client.                                              *)
(*                                                                         *)
(* Numbers.  A JavaScript number is modelled as an exact rational          *)
(* <<num, den>> with den > 0 in lowest terms; counts (attempts, correct,   *)
(* streak) are plain integers.  Math.round is floor(x + 1/2), as in        *)
(* ECMAScript.  Binary floating-point representation error is not          *)
(* modelled.  A square root is never evaluated: a quantity of the form     *)
(* z * sqrt(v) is carried as its square and compared by squaring.          *)
(***************************************************************************)
EXTENDS Integers, Naturals, Sequences, FiniteSets, TLC

VARIABLES
    LEARNING_CONSTANTS, \* the module-level thresholds object
    fetchResult,        \* outcome of the last fetchLearningConstants call
    letterStats,        \* the LetterStats record a card is computed from
    card                \* derived metrics last computed for letterStats

VARIABLES
    records,            \* the learner's letter records held by the backend
    now,                \* Date.now() / 1000, seconds since the epoch
    userDifficulty,     \* the learner's difficulty level
    userId,             \* useNextLetter: the hook's userId argument
    availableLetters,   \* useNextLetter: the hook's availableLetters argument
    lettersToUse,       \* fetchNextLetter: the letters of the current call
    request,            \* the /api/learning/step request in flight
    loading,            \* useNextLetter: loading
    nextLetter,         \* useNextLetter: nextLetter (the stored response)
    error,              \* useNextLetter: error
    brailleLetter       \* the letter last posted to /api/braille/letter

VARIABLES
    candidate,          \* the stats record handed to calculateSelectionPriority
    priority            \* the priority last computed for candidate

scoringVars == <<LEARNING_CONSTANTS, fetchResult, letterStats, card>>

VARIABLES
    trendResults,       \* the recentResults handed to analyzePerformanceTrend
    trendAccuracy,      \* the overallAccuracy handed to analyzePerformanceTrend
    trendTimes,         \* the responseTimes handed to analyzeResponseTimeTrend
    performanceTrend,   \* what analyzePerformanceTrend returned
    responseTimeTrend   \* what analyzeResponseTimeTrend returned

VARIABLES
    serverLetters,      \* the learner's LetterStats records held by the backend
    statsOp,            \* useLearningStats: the request awaited, if any
    learnerStats,       \* useLearningStats: stats
    learnerLetters,     \* useLearningStats: letters
    insights,           \* useLearningStats: insights
    statsLoading,       \* useLearningStats: loading
    statsError,         \* useLearningStats: error
    recommendations     \* what generateRecommendations returned

VARIABLES
    servos,             \* firmware: the angle last written to each of the 6 servos
    message             \* firmware: the payload last handed to mqttCallback

priorityVars == <<candidate, priority>>

VARIABLES
    apiKey,             \* SpeechService: whether an API key is configured
    isListening,        \* SpeechService: this.isListening
    mediaRecorder,      \* SpeechService: this.mediaRecorder (0 for null)
    audioChunks,        \* SpeechService: this.audioChunks.length
    recorders,          \* every MediaRecorder created so far
    starting,           \* start() calls awaiting getUserMedia
    timers,             \* auto-stop timers armed and not yet fired
    elapsed,            \* seconds since the page was loaded
    recognizing,        \* recordings whose recognition request is in flight
    events,             \* the callbacks delivered for recordings, in order
    hookListening,      \* useSpeechRecognition: isListening
    speechError         \* useSpeechRecognition: error

VARIABLES
    recognition,            \* LearningMode: the browser recognizer's state
    listening,              \* LearningMode: listening
    retryCount,             \* LearningMode: retryCount
    isRecognitionActiveRef, \* LearningMode: isRecognitionActiveRef.current
    pendingRetryRef,        \* LearningMode: pendingRetryRef.current
    retryCountRef,          \* LearningMode: retryCountRef.current
    retryTimers,            \* 150 ms retry timers armed by onend
    restartTimers,          \* 200 ms restart timers armed by handleMic
    micError,               \* LearningMode: error
    restartsInRow,          \* automatic restarts since the count was last reset
    lastEvent,              \* the handler that ran last
    transcript              \* LearningMode: transcript

VARIABLES
    mounted,            \* adaptive LearningMode: the component is mounted
    authUser,           \* adaptive LearningMode: useAuth().user (0 for none)
    sessionId,          \* adaptive LearningMode: sessionId (0 for null)
    effectSessionId,    \* sessionId as the lifecycle effect's closure holds it
    startCalls,         \* api.startSession calls in flight, by user
    openSessions,       \* backend: sessions started and not ended
    created,            \* backend: number of sessions created so far
    storedSessions,     \* session ids that setSessionId has stored
    endCalls            \* session ids api.endSession was called for

VARIABLES
    currentIndex,       \* TutorialMode: currentIndex
    currentLetter,      \* TutorialMode: alphabet position of currentLetter.letter
    tutorialLoading,    \* TutorialMode: loading
    tutorialError,      \* TutorialMode: error
    practiceMode,       \* TutorialMode: practiceMode
    completed,          \* TutorialMode: completed
    tutorialPosition,   \* backend: the tutorial's current position
    inFlight,           \* tutorial requests sent and not yet answered
    sentRequests        \* how many tutorial requests were sent

VARIABLES
    lookupLetter,       \* the argument of the last getLetterDots call, if any
    lookupDots          \* what that call returned

firmwareVars == <<servos, message>>

lookupVars == <<lookupLetter, lookupDots>>

tutorialVars == <<currentIndex, currentLetter, tutorialLoading, tutorialError,
                  practiceMode, completed, tutorialPosition, inFlight,
                  sentRequests>>

sessionVars == <<mounted, authUser, sessionId, effectSessionId, startCalls,
                 openSessions, created, storedSessions, endCalls>>

micVars == <<recognition, listening, retryCount, isRecognitionActiveRef,
             pendingRetryRef, retryCountRef, retryTimers, restartTimers,
             micError, restartsInRow, lastEvent, transcript>>

speechVars == <<apiKey, isListening, mediaRecorder, audioChunks, recorders,
                starting, timers, elapsed, recognizing, events, hookListening,
                speechError>>

peripheralVars == <<firmwareVars, speechVars, micVars, sessionVars,
                    tutorialVars, lookupVars>>

statsVars == <<serverLetters, statsOp, learnerStats, learnerLetters, insights,
               statsLoading, statsError, recommendations>>

trendVars == <<trendResults, trendAccuracy, trendTimes, performanceTrend,
               responseTimeTrend>>

analysisVars == <<priorityVars, trendVars, statsVars, peripheralVars>>

stepVars == <<records, now, userDifficulty, userId, availableLetters,
              lettersToUse, request, loading, nextLetter, error, brailleLetter>>

vars == <<LEARNING_CONSTANTS, fetchResult, letterStats, card, records, now,
          userDifficulty, userId, availableLetters, lettersToUse, request,
          loading, nextLetter, error, brailleLetter, analysisVars>>

-----------------------------------------------------------------------------
(* Rational arithmetic *)

Abs(x) == IF x < 0 THEN -x ELSE x

RECURSIVE GCD(_, _)
GCD(a, b) == IF b = 0 THEN a ELSE GCD(b, a % b)

\* n/d in lowest terms, for d > 0
Lowest(n, d) ==
    LET g == GCD(Abs(n), d)
    IN  <<n \div g, d \div g>>

Rat(n, d) == IF d < 0 THEN Lowest(-n, -d) ELSE Lowest(n, d)

R(n) == <<n, 1>>

\* the pairs <<numerator, denominator>>
Pairs == Int \X Int

\* a + b and a * b, on the values of the operands
Sum[a \in Pairs, b \in Pairs] ==
    Rat(a[1] * b[2] + b[1] * a[2], a[2] * b[2])

Product[a \in Pairs, b \in Pairs] ==
    LET g1 == GCD(Abs(a[1]), b[2])
        g2 == GCD(Abs(b[1]), a[2])
    IN  Rat((a[1] \div g1) * (b[1] \div g2), (a[2] \div g2) * (b[2] \div g1))

RAdd(a, b) == Sum[a, b]
RNeg(a) == <<-a[1], a[2]>>
RSub(a, b) == RAdd(a, RNeg(b))
RMul(a, b) == Product[a, b]
RDiv(a, b) == RMul(a, Rat(b[2], b[1]))

Floor(a) == a[1] \div a[2]

\* a <= b, comparing integer parts first so that no product leaves 32 bits
LessOrEqual[a \in Pairs, b \in Pairs] ==
    LET fa == Floor(a)
        fb == Floor(b)
    IN  IF fa # fb THEN fa < fb
        ELSE (a[1] - fa * a[2]) * b[2] <= (b[1] - fb * b[2]) * a[2]

RLe(a, b) == LessOrEqual[a, b]
RLt(a, b) == ~RLe(b, a)
RMin(a, b) == IF RLe(a, b) THEN a ELSE b
RMax(a, b) == IF RLe(a, b) THEN b ELSE a

\* Math.round(x): the integer nearest to x, ties towards +infinity
MathRound(a) == (2 * a[1] + a[2]) \div (2 * a[2])

\* Math.round(x * 1000) / 1000
Round3(a) == Rat(MathRound(RMul(a, R(1000))), 1000)

\* sqrt(q) <= x and x <= sqrt(q), for a rational q >= 0
SqrtLe(q, x) == RLe(R(0), x) /\ RLe(q, RMul(x, x))
LeSqrt(x, q) == RLe(x, R(0)) \/ RLe(RMul(x, x), q)

\* JavaScript's nullish values: an optional value is <<>> (undefined) or <<v>>
Undefined == <<>>
Nullish(x) == x = <<>>
\* a ?? b
Coalesce(a, b) == IF Nullish(a) THEN b ELSE a[1]

-----------------------------------------------------------------------------
(* learningConstants.js *)

DefaultConstants ==
    [ MAX_RESPONSE_TIME        |-> Rat(6, 1),
      MASTERY_HIGH             |-> Rat(85, 100),
      MASTERY_MID              |-> Rat(6, 10),
      MIN_ATTEMPTS_FOR_MASTERY |-> 5,
      CONFIDENCE_Z_SCORE       |-> Rat(196, 100) ]

\* Object.assign(LEARNING_CONSTANTS, {K: data.K ?? LEARNING_CONSTANTS.K, ...})
AssignConstants(current, data) ==
    [ MAX_RESPONSE_TIME        |-> Coalesce(data.MAX_RESPONSE_TIME, current.MAX_RESPONSE_TIME),
      MASTERY_HIGH             |-> Coalesce(data.MASTERY_HIGH, current.MASTERY_HIGH),
      MASTERY_MID              |-> Coalesce(data.MASTERY_MID, current.MASTERY_MID),
      MIN_ATTEMPTS_FOR_MASTERY |-> Coalesce(data.MIN_ATTEMPTS_FOR_MASTERY, current.MIN_ATTEMPTS_FOR_MASTERY),
      CONFIDENCE_Z_SCORE       |-> Coalesce(data.CONFIDENCE_Z_SCORE, current.CONFIDENCE_Z_SCORE) ]

-----------------------------------------------------------------------------
(* learningCalculations.js: the scoring engine.  The functions read the    *)
(* thresholds from the module-level object LEARNING_CONSTANTS.             *)

Null == [isNull |-> TRUE]
IsNull(stats) == stats = Null

\* variant: the clamp to [0, 1] is missing
calculateAccuracy_noClamp(stats) ==
    IF IsNull(stats) \/ stats.attempts = 0 THEN R(0)
    ELSE Rat(stats.correct, stats.attempts)

calculateAccuracy(stats) ==
    IF IsNull(stats) \/ stats.attempts = 0 THEN R(0)
    ELSE RMin(R(1), RMax(R(0), Rat(stats.correct, stats.attempts)))

calculateSpeedScore(avgResponseTime) ==
    LET MAX_RESPONSE_TIME == LEARNING_CONSTANTS.MAX_RESPONSE_TIME
    IN  IF RLe(MAX_RESPONSE_TIME, R(0)) \/ RLt(avgResponseTime, R(0)) THEN R(0)
        ELSE RMax(R(0), RSub(R(1), RDiv(avgResponseTime, MAX_RESPONSE_TIME)))

\* variant: 0.01 per streak step instead of 0.02
calculateStreakBonus_halfRate(streak) == RMin(Rat(1, 10), RMul(R(streak), Rat(1, 100)))

calculateStreakBonus(streak) == RMin(Rat(1, 10), RMul(R(streak), Rat(2, 100)))

\* recentResults.slice(-n)
SliceLast(s, n) == IF Len(s) <= n THEN s ELSE SubSeq(s, Len(s) - n + 1, Len(s))

Bit(b) == IF b THEN 1 ELSE 0

\* recent.reduce((a, b) => a + (b ? 1 : 0), 0): one for every true result
CountTrue(s) == Cardinality({i \in 1..Len(s) : s[i]})

\* recent.reduce((sum, x) => sum + Math.pow((x ? 1 : 0) - mean, 2), 0): the
\* reduce adds (1 - mean)^2 for every true result and mean^2 for every
\* false one
SumSquares(s, mean) ==
    LET hits == CountTrue(s)
        d1 == RSub(R(Bit(TRUE)), mean)
        d0 == RSub(R(Bit(FALSE)), mean)
    IN  RAdd(RMul(R(hits), RMul(d1, d1)), RMul(R(Len(s) - hits), RMul(d0, d0)))

calculateConsistencyBonus(recentResults) ==
    IF Len(recentResults) < 5 THEN R(0)
    ELSE LET recent == SliceLast(recentResults, 10)
             mean == Rat(CountTrue(recent), Len(recent))
             variance == RDiv(SumSquares(recent, mean), R(Len(recent)))
             consistency == RMax(R(0), RSub(R(1), RMul(variance, R(4))))
         IN  RMul(consistency, Rat(5, 100))

\* variant: the early return for attempts === 0 is missing
calculateSkillScore_noZeroGuard(stats) ==
    IF IsNull(stats) THEN R(0)
    ELSE LET accuracy == calculateAccuracy(stats)
             speedScore == calculateSpeedScore(stats.avg_response_time)
             streakBonus == calculateStreakBonus(stats.streak)
             consistencyBonus == calculateConsistencyBonus(stats.recent_results)
             baseScore == RAdd(RAdd(RAdd(RMul(Rat(6, 10), accuracy),
                                         RMul(Rat(25, 100), speedScore)),
                                    streakBonus), consistencyBonus)
         IN  Round3(RMin(R(1), baseScore))

calculateSkillScore(stats) ==
    IF IsNull(stats) \/ stats.attempts = 0 THEN R(0)
    ELSE LET accuracy == calculateAccuracy(stats)
             speedScore == calculateSpeedScore(stats.avg_response_time)
             streakBonus == calculateStreakBonus(stats.streak)
             consistencyBonus == calculateConsistencyBonus(stats.recent_results)
             baseScore == RAdd(RAdd(RAdd(RMul(Rat(6, 10), accuracy),
                                         RMul(Rat(25, 100), speedScore)),
                                    streakBonus), consistencyBonus)
         IN  Round3(RMin(R(1), baseScore))

\* variant: attempts <= MIN_ATTEMPTS_FOR_MASTERY instead of <
calculateMasteryLevel_offByOne(stats) ==
    LET MIN_ATTEMPTS_FOR_MASTERY == LEARNING_CONSTANTS.MIN_ATTEMPTS_FOR_MASTERY
        MASTERY_HIGH == LEARNING_CONSTANTS.MASTERY_HIGH
        MASTERY_MID == LEARNING_CONSTANTS.MASTERY_MID
    IN  IF IsNull(stats) \/ stats.attempts <= MIN_ATTEMPTS_FOR_MASTERY THEN "learning"
        ELSE LET score == calculateSkillScore(stats)
             IN  IF RLe(MASTERY_HIGH, score) THEN "mastered"
                 ELSE IF RLe(MASTERY_MID, score) THEN "learning"
                 ELSE "weak"

calculateMasteryLevel(stats) ==
    LET MIN_ATTEMPTS_FOR_MASTERY == LEARNING_CONSTANTS.MIN_ATTEMPTS_FOR_MASTERY
        MASTERY_HIGH == LEARNING_CONSTANTS.MASTERY_HIGH
        MASTERY_MID == LEARNING_CONSTANTS.MASTERY_MID
    IN  IF IsNull(stats) \/ stats.attempts < MIN_ATTEMPTS_FOR_MASTERY THEN "learning"
        ELSE LET score == calculateSkillScore(stats)
             IN  IF RLe(MASTERY_HIGH, score) THEN "mastered"
                 ELSE IF RLe(MASTERY_MID, score) THEN "learning"
                 ELSE "weak"

Max(a, b) == IF a >= b THEN a ELSE b
Min(a, b) == IF a <= b THEN a ELSE b

\* variant: correct is not clamped to attempts
calculateProbabilityCorrect_noClamp(stats) ==
    IF IsNull(stats) THEN Rat(1, 2)
    ELSE LET correct == Max(0, stats.correct)
             attempts == Max(0, stats.attempts)
             alpha == correct + 1
             beta == (attempts - correct) + 1
         IN  Round3(Rat(alpha, alpha + beta))

calculateProbabilityCorrect(stats) ==
    IF IsNull(stats) THEN Rat(1, 2)
    ELSE LET correct == Max(0, stats.correct)
             attempts == Max(0, stats.attempts)
             clampedCorrect == Min(correct, attempts)
             alpha == clampedCorrect + 1
             beta == (attempts - clampedCorrect) + 1
         IN  Round3(Rat(alpha, alpha + beta))

\* Math.round(Math.max(0, p - margin) * 1000), where m is (1000 * margin)^2
LowerOK(p, m, k) ==
    SqrtLe(m, RSub(RAdd(RMul(R(1000), p), Rat(1, 2)), R(k)))

RECURSIVE LowerSearch(_, _, _, _)
LowerSearch(p, m, lo, hi) ==
    IF lo >= hi THEN lo
    ELSE LET mid == (lo + hi + 1) \div 2
         IN  IF LowerOK(p, m, mid) THEN LowerSearch(p, m, mid, hi)
             ELSE LowerSearch(p, m, lo, mid - 1)

\* variant: Math.max(0, ...) is missing
RoundLower_noClamp(p, m) == LowerSearch(p, m, -2000, 1000)

RoundLower(p, m) ==
    IF LeSqrt(RMul(R(1000), p), m) THEN 0 ELSE LowerSearch(p, m, 0, 1000)

\* Math.round(Math.min(1, p + margin) * 1000), where m is (1000 * margin)^2
UpperOK(p, m, k) ==
    LeSqrt(RSub(RSub(R(k), Rat(1, 2)), RMul(R(1000), p)), m)

RECURSIVE UpperSearch(_, _, _, _)
UpperSearch(p, m, lo, hi) ==
    IF lo >= hi THEN lo
    ELSE LET mid == (lo + hi + 1) \div 2
         IN  IF UpperOK(p, m, mid) THEN UpperSearch(p, m, mid, hi)
             ELSE UpperSearch(p, m, lo, mid - 1)

RoundUpper(p, m) ==
    IF LeSqrt(RMul(R(1000), RSub(R(1), p)), m) THEN 1000 ELSE UpperSearch(p, m, 0, 1000)

calculateConfidenceInterval(stats) ==
    IF IsNull(stats) \/ stats.attempts < 2 THEN [lower |-> R(0), upper |-> R(1)]
    ELSE LET p == calculateAccuracy(stats)
             n == stats.attempts
             z == LEARNING_CONSTANTS.CONFIDENCE_Z_SCORE
             variance == RDiv(RMul(p, RSub(R(1), p)), R(n))
             z1000 == RMul(R(1000), z)
             \* (1000 * margin)^2 = (1000 * z)^2 * Math.max(0, variance)
             m == RMul(RMul(z1000, z1000), RMax(R(0), variance))
         IN  [ lower |-> Rat(RoundLower(p, m), 1000),
               upper |-> Rat(RoundUpper(p, m), 1000) ]

-----------------------------------------------------------------------------
(* learningCalculations.js: the priority selector.  Date.now() is the      *)
(* variable now (in seconds).                                              *)

\* x is truthy, for an optional integer and an optional number
TruthyInt(x) == x # <<>> /\ x[1] # 0
TruthyNum(x) == x # <<>> /\ x[1][1] # 0
\* x || d
OrInt(x, d) == IF TruthyInt(x) THEN x[1] ELSE d
OrNum(x, d) == IF TruthyNum(x) THEN x[1] ELSE d

\* 10000 * exp(-k/4) for k = 0..40, rounded
ExpTable ==
    << 10000, 7788, 6065, 4724, 3679, 2865, 2231, 1738, 1353, 1054, 821, 639,
       498, 388, 302, 235, 183, 143, 111, 87, 67, 52, 41, 32, 25, 19, 15, 12,
       9, 7, 6, 4, 3, 3, 2, 2, 1, 1, 1, 1, 0 >>

\* Math.exp(-x) to four decimals: exact table values on the grid x = k/4,
\* linear in between, 0 beyond x = 10.  For x < 0 the value exceeds 1; the
\* only caller clamps it to 1, so 1 - x stands for it.
ExpNeg(x) ==
    IF x[1] < 0 THEN RSub(R(1), x)
    ELSE LET x4 == RMul(x, R(4))
             k == Floor(x4)
         IN  IF k >= 40 THEN R(0)
             ELSE LET lo == Rat(ExpTable[k + 1], 10000)
                      hi == Rat(ExpTable[k + 2], 10000)
                  IN  RAdd(lo, RMul(RSub(x4, R(k)), RSub(hi, lo)))

calculateRetentionProbability(lastSeen, easinessFactor, repetitions) ==
    LET timeElapsed == now - lastSeen
        stability == RMul(RMul(easinessFactor, R(repetitions + 1)), R(86400))
        retention == ExpNeg(RDiv(R(timeElapsed), stability))
    IN  RMin(R(1), RMax(R(0), retention))

calculateSelectionPriority(stats, difficultyLevel) ==
    IF IsNull(stats) THEN R(0)
    ELSE LET review ==
                 IF TruthyInt(stats.next_review) /\ now >= stats.next_review[1]
                 THEN LET overdueSeconds == now - stats.next_review[1]
                          overdueDays == Rat(overdueSeconds, 86400)
                      IN  RMin(R(30), RAdd(R(15), RMul(overdueDays, R(5))))
                 ELSE R(0)
             retention ==
                 OrNum(stats.retention,
                       calculateRetentionProbability(OrInt(stats.last_seen, now),
                                                     OrNum(stats.easiness_factor, Rat(5, 2)),
                                                     OrInt(stats.repetition, 0)))
             deficit == IF RLt(retention, Rat(9, 10))
                        THEN RMul(RSub(R(1), retention), R(25)) ELSE R(0)
             trend == IF stats.trend = "declining" THEN R(15)
                      ELSE IF stats.trend = "stable"
                              /\ RLt(calculateAccuracy(stats), LEARNING_CONSTANTS.MASTERY_MID)
                           THEN R(8) ELSE R(0)
             difficulty == OrNum(stats.difficulty, Rat(1, 2))
             d == RSub(difficulty, difficultyLevel)
             difficultyMatch == RSub(R(1), IF d[1] < 0 THEN RNeg(d) ELSE d)
             hoursSince == IF TruthyInt(stats.last_seen)
                           THEN Rat(now - stats.last_seen[1], 3600) ELSE R(0)
             recency == RMin(R(10), RMul(hoursSince, Rat(1, 2)))
         IN  RAdd(RAdd(RAdd(RAdd(review, deficit), trend),
                       RMul(difficultyMatch, R(20))), recency)

\* the amounts the five "priority +=" statements of calculateSelectionPriority
\* add, in the order of the code
PriorityParts(stats, difficultyLevel) ==
    IF IsNull(stats)
    THEN [ review |-> R(0), deficit |-> R(0), trend |-> R(0),
           difficultyMatch |-> R(0), recency |-> R(0) ]
    ELSE LET overdueSeconds == now - stats.next_review[1]
             overdueDays == Rat(overdueSeconds, 86400)
             retention ==
                 OrNum(stats.retention,
                       calculateRetentionProbability(OrInt(stats.last_seen, now),
                                                     OrNum(stats.easiness_factor, Rat(5, 2)),
                                                     OrInt(stats.repetition, 0)))
             difficulty == OrNum(stats.difficulty, Rat(1, 2))
             d == RSub(difficulty, difficultyLevel)
             difficultyMatch == RSub(R(1), IF d[1] < 0 THEN RNeg(d) ELSE d)
             hoursSince == IF TruthyInt(stats.last_seen)
                           THEN Rat(now - stats.last_seen[1], 3600) ELSE R(0)
         IN  [ review |->
                   IF TruthyInt(stats.next_review) /\ now >= stats.next_review[1]
                   THEN RMin(R(30), RAdd(R(15), RMul(overdueDays, R(5))))
                   ELSE R(0),
               deficit |->
                   IF RLt(retention, Rat(9, 10))
                   THEN RMul(RSub(R(1), retention), R(25)) ELSE R(0),
               trend |->
                   IF stats.trend = "declining" THEN R(15)
                   ELSE IF stats.trend = "stable"
                           /\ RLt(calculateAccuracy(stats), LEARNING_CONSTANTS.MASTERY_MID)
                        THEN R(8) ELSE R(0),
               difficultyMatch |-> RMul(difficultyMatch, R(20)),
               recency |-> RMin(R(10), RMul(hoursSince, Rat(1, 2))) ]

-----------------------------------------------------------------------------
(* learningCalculations.js: trend analysis.  Numbers are IEEE 754 doubles; *)
(* an exact comparison and the comparison of the doubles differ only where *)
(* the exact values are equal, and there the rounding of the last          *)
(* operation decides.                                                      *)

TREND_THRESHOLD_IMPROVING == Rat(15, 100)
TREND_THRESHOLD_DECLINING == Rat(-15, 100)

\* recentAccuracy - overallAccuracy in doubles against the double of the
\* threshold it equals exactly: 1 above, -1 below, 0 equal.  The means are
\* those of 3 to 5 results and overallAccuracy is a multiple of 0.05.
DifferenceRounding(recentAccuracy, threshold) ==
    IF threshold = TREND_THRESHOLD_IMPROVING
    THEN IF recentAccuracy \in {Rat(1, 5), Rat(2, 5), Rat(1, 2), Rat(3, 4), Rat(4, 5), R(1)}
         THEN 1
         ELSE IF recentAccuracy = Rat(3, 5) THEN -1 ELSE 0
    ELSE IF recentAccuracy \in {Rat(1, 5), Rat(4, 5)}
         THEN 1
         ELSE IF recentAccuracy \in {Rat(1, 4), Rat(2, 5), Rat(1, 2), Rat(3, 5), Rat(3, 4)}
              THEN -1 ELSE 0

analyzePerformanceTrend(recentResults, overallAccuracy) ==
    IF Nullish(recentResults) \/ Len(recentResults[1]) < 3
    THEN "insufficient_data"
    ELSE LET window == Min(5, Len(recentResults[1]))
             recent == SliceLast(recentResults[1], window)
             recentAccuracy == Rat(CountTrue(recent), Len(recent))
             overall == Coalesce(overallAccuracy, R(0))
             diff == RSub(recentAccuracy, overall)
         IN  IF \/ RLt(TREND_THRESHOLD_IMPROVING, diff)
                \/ /\ diff = TREND_THRESHOLD_IMPROVING
                   /\ DifferenceRounding(recentAccuracy, TREND_THRESHOLD_IMPROVING) > 0
             THEN "improving"
             ELSE IF \/ RLt(diff, TREND_THRESHOLD_DECLINING)
                     \/ /\ diff = TREND_THRESHOLD_DECLINING
                        /\ DifferenceRounding(recentAccuracy, TREND_THRESHOLD_DECLINING) < 0
                  THEN "declining"
                  ELSE "stable"

\* responseTimes.reduce((a, b) => a + b, 0)
RECURSIVE SumTimes(_)
SumTimes(s) == IF s = <<>> THEN 0 ELSE Head(s) + SumTimes(Tail(s))

\* olderAvg * factor in doubles against the double of the exact product:
\* 1 above, -1 below, 0 equal.  olderAvg is the mean of one to three times
\* of 1 to 6 seconds and the product a multiple of 1/5, as a mean of five is.
ProductRounding(olderAvg, factor) ==
    IF factor = Rat(8, 10)
    THEN IF olderAvg \in {Rat(3, 2), R(3), Rat(7, 2), R(6)} THEN 1 ELSE 0
    ELSE IF olderAvg \in {Rat(7, 3), Rat(14, 3)}
         THEN 1
         ELSE IF olderAvg \in {Rat(4, 3), Rat(3, 2), Rat(8, 3), R(3), Rat(11, 3),
                               Rat(13, 3), Rat(9, 2), Rat(16, 3), R(6)}
              THEN -1 ELSE 0

analyzeResponseTimeTrend(responseTimes) ==
    IF Nullish(responseTimes) \/ Len(responseTimes[1]) < 3
    THEN "insufficient_data"
    ELSE LET times == responseTimes[1]
             window == Min(5, Len(times))
             recent == SliceLast(times, window)
             older == SubSeq(times, 1, Len(times) - window)
         IN  IF Len(older) = 0 THEN "stable"
             ELSE LET recentAvg == Rat(SumTimes(recent), Len(recent))
                      olderAvg == Rat(SumTimes(older), Len(older))
                      low == RMul(olderAvg, Rat(8, 10))
                      high == RMul(olderAvg, Rat(12, 10))
                  IN  IF \/ RLt(recentAvg, low)
                         \/ recentAvg = low /\ ProductRounding(olderAvg, Rat(8, 10)) > 0
                      THEN "speeding_up"
                      ELSE IF \/ RLt(high, recentAvg)
                              \/ recentAvg = high /\ ProductRounding(olderAvg, Rat(12, 10)) < 0
                           THEN "slowing_down"
                           ELSE "stable"

-----------------------------------------------------------------------------
(* learningCalculations.js: recommendations and insights over the list of  *)
(* letter records.  A record carries letter, attempts, correct,            *)
(* avg_response_time, streak, recent_results, needs_review, trend and,     *)
(* optionally, mastery_level ("" when missing), skill_score and retention. *)

\* the indices i of s, in order, with Test(s[i])
RECURSIVE Filter(_, _, _)
Filter(s, keep, i) ==
    IF i > Len(s) THEN <<>>
    ELSE IF i \in keep THEN <<s[i]>> \o Filter(s, keep, i + 1)
    ELSE Filter(s, keep, i + 1)

\* list.slice(0, 3).map(l => l.letter)
FirstThreeLetters(list) ==
    [i \in 1..Min(3, Len(list)) |-> list[i].letter]

\* userStats is <<>> (null) or <<data>>; the message texts are left out
generateRecommendations(userStats) ==
    IF Nullish(userStats) \/ Nullish(userStats[1].letters) THEN <<>>
    ELSE LET list == userStats[1].letters[1]
             urgentReviews ==
                 Filter(list, {i \in 1..Len(list) :
                                  /\ list[i].needs_review
                                  /\ RLt(OrNum(list[i].retention, R(1)), Rat(7, 10))}, 1)
             declining ==
                 Filter(list, {i \in 1..Len(list) : list[i].trend = "declining"}, 1)
             mastered ==
                 Filter(list, {i \in 1..Len(list) : list[i].mastery_level = "mastered"}, 1)
             total == Len(list)
         IN  (IF Len(urgentReviews) > 0
              THEN << [ type |-> "urgent_review", priority |-> "high",
                        letters |-> FirstThreeLetters(urgentReviews) ] >>
              ELSE <<>>)
             \o
             (IF Len(declining) > 0
              THEN << [ type |-> "declining_performance", priority |-> "medium",
                        letters |-> FirstThreeLetters(declining) ] >>
              ELSE <<>>)
             \o
             (IF Len(mastered) > 0 /\ Len(mastered) < total
              THEN << [ type |-> "progress_update", priority |-> "low",
                        letters |-> <<>> ] >>
              ELSE <<>>)

\* lettersData.reduce((sum, l) => sum + (l.attempts || 0), 0)
RECURSIVE TotalAttempts(_)
TotalAttempts(lettersData) ==
    IF lettersData = <<>> THEN 0
    ELSE Head(lettersData).attempts + TotalAttempts(Tail(lettersData))

\* lettersData.reduce((sum, l) => sum + (l.correct || 0), 0)
RECURSIVE TotalCorrect(_)
TotalCorrect(lettersData) ==
    IF lettersData = <<>> THEN 0
    ELSE Head(lettersData).correct + TotalCorrect(Tail(lettersData))

\* lettersData.reduce((sum, l) => sum + (l.avg_response_time || 0), 0)
RECURSIVE TotalResponseTime(_)
TotalResponseTime(lettersData) ==
    IF lettersData = <<>> THEN R(0)
    ELSE RAdd(Head(lettersData).avg_response_time, TotalResponseTime(Tail(lettersData)))

\* retentions.reduce((a, b) => a + b, 0)
RECURSIVE TotalRetention(_)
TotalRetention(withRetention) ==
    IF withRetention = <<>> THEN R(0)
    ELSE RAdd(Head(withRetention).retention[1], TotalRetention(Tail(withRetention)))

\* letter.mastery_level || calculateMasteryLevel(letter)
LevelOf(letter) ==
    IF letter.mastery_level # "" THEN letter.mastery_level
    ELSE calculateMasteryLevel(letter)

\* variant: only a level the record carries is counted
MasteryDistribution_carriedOnly(lettersData) ==
    LET count(level) ==
            Cardinality({i \in 1..Len(lettersData) : lettersData[i].mastery_level = level})
    IN  [ mastered |-> count("mastered"), learning |-> count("learning"),
          weak |-> count("weak"), new |-> count("new") ]

\* the forEach that fills masteryDistribution, for the four levels
MasteryDistribution(lettersData) ==
    LET count(level) ==
            Cardinality({i \in 1..Len(lettersData) : LevelOf(lettersData[i]) = level})
    IN  [ mastered |-> count("mastered"), learning |-> count("learning"),
          weak |-> count("weak"), new |-> count("new") ]

\* letter.skill_score || calculateSkillScore(letter)
ScoreOf(letter) == OrNum(letter.skill_score, calculateSkillScore(letter))

NoLetter == ""

\* variant: every record is ranked, whatever its attempts
RECURSIVE StrongestWeakest_noThreshold(_, _, _)
StrongestWeakest_noThreshold(lettersData, i, found) ==
    IF i > Len(lettersData) THEN found
    ELSE LET letter == lettersData[i]
             score == ScoreOf(letter)
             higher == RLt(found.highestScore, score)
             lower == RLt(score, found.lowestScore)
         IN  StrongestWeakest_noThreshold(lettersData, i + 1,
                [ strongestLetter |-> IF higher THEN letter.letter ELSE found.strongestLetter,
                  highestScore |-> IF higher THEN score ELSE found.highestScore,
                  weakestLetter |-> IF lower THEN letter.letter ELSE found.weakestLetter,
                  lowestScore |-> IF lower THEN score ELSE found.lowestScore ])

\* the forEach that finds the strongest and the weakest letter, from record
\* i on; found holds strongestLetter, highestScore, weakestLetter, lowestScore
RECURSIVE StrongestWeakest(_, _, _)
StrongestWeakest(lettersData, i, found) ==
    IF i > Len(lettersData) THEN found
    ELSE LET letter == lettersData[i]
             score == ScoreOf(letter)
             higher == RLt(found.highestScore, score)
             lower == RLt(score, found.lowestScore)
         IN  IF letter.attempts < 3
             THEN StrongestWeakest(lettersData, i + 1, found)
             ELSE StrongestWeakest(lettersData, i + 1,
                    [ strongestLetter |-> IF higher THEN letter.letter ELSE found.strongestLetter,
                      highestScore |-> IF higher THEN score ELSE found.highestScore,
                      weakestLetter |-> IF lower THEN letter.letter ELSE found.weakestLetter,
                      lowestScore |-> IF lower THEN score ELSE found.lowestScore ])

\* Math.round(x * 100) / 100
Round2(x) == Rat(MathRound(RMul(x, R(100))), 100)

calculateLearningInsights(lettersData) ==
    IF Len(lettersData) = 0
    THEN [ overallAccuracy |-> R(0), totalAttempts |-> 0, lettersPracticed |-> 0,
           masteryDistribution |-> [mastered |-> 0, learning |-> 0, weak |-> 0, new |-> 0],
           avgResponseTime |-> R(0), strongestLetter |-> NoLetter,
           weakestLetter |-> NoLetter, needsPractice |-> <<>>,
           avgRetention |-> R(1), learningVelocity |-> R(0) ]
    ELSE LET totalAttempts == TotalAttempts(lettersData)
             totalCorrect == TotalCorrect(lettersData)
             overallAccuracy == IF totalAttempts > 0
                                THEN Rat(totalCorrect, totalAttempts) ELSE R(0)
             masteryDistribution == MasteryDistribution(lettersData)
             weak == Filter(lettersData,
                            {i \in 1..Len(lettersData) : LevelOf(lettersData[i]) = "weak"}, 1)
             avgResponseTime == RDiv(TotalResponseTime(lettersData), R(Len(lettersData)))
             found == StrongestWeakest(lettersData, 1,
                         [ strongestLetter |-> NoLetter, highestScore |-> R(-1),
                           weakestLetter |-> NoLetter, lowestScore |-> R(2) ])
             retentions == Filter(lettersData,
                                  {i \in 1..Len(lettersData) :
                                      lettersData[i].retention # Undefined}, 1)
             avgRetention == IF Len(retentions) > 0
                             THEN RDiv(TotalRetention(retentions), R(Len(retentions)))
                             ELSE R(1)
         IN  [ overallAccuracy |-> Round3(overallAccuracy),
               totalAttempts |-> totalAttempts,
               lettersPracticed |-> Len(lettersData),
               masteryDistribution |-> masteryDistribution,
               avgResponseTime |-> Round2(avgResponseTime),
               strongestLetter |-> found.strongestLetter,
               weakestLetter |-> found.weakestLetter,
               needsPractice |-> [i \in 1..Len(weak) |-> weak[i].letter],
               avgRetention |-> Round3(avgRetention),
               learningVelocity |-> Rat(masteryDistribution.mastered,
                                        Max(1, Len(lettersData))) ]

-----------------------------------------------------------------------------
(* The statistics and reset endpoints of the backend                       *)
(* (GET /api/learning/stats/{user}, POST /api/learning/reset/{user}).      *)

\* the all-default LetterStats of a letter
DefaultLetterStats(l) ==
    [ letter |-> l, attempts |-> 0, correct |-> 0, avg_response_time |-> R(0),
      streak |-> 0, recent_results |-> <<>>, needs_review |-> FALSE,
      trend |-> "", mastery_level |-> "", skill_score |-> Undefined,
      retention |-> Undefined ]

\* the reset command: every record of the learner returns to the defaults
ResetLetters(held) ==
    [i \in 1..Len(held) |-> DefaultLetterStats(held[i].letter)]

\* the body of the statistics response
StatsResponse(held) == [ letters |-> <<held>> ]

-----------------------------------------------------------------------------
(* The useLearningStats hook, driven by LearningDashboard: its Refresh,    *)
(* Try Again and Reset buttons are disabled or hidden while loading.       *)

NoStats == <<>>
NoError == <<>>

\* fetchStats from its first statement to the await
BeginFetchStats(op) ==
    /\ statsLoading' = TRUE
    /\ statsError' = NoError
    /\ statsOp' = op

\* the mount effect, Refresh Stats or Try Again: fetchStats()
fetchStats ==
    /\ statsOp = "idle"
    /\ IF userId = <<>>
       THEN UNCHANGED <<statsLoading, statsError, statsOp>>
       ELSE BeginFetchStats("fetch")
    /\ UNCHANGED <<serverLetters, learnerStats, learnerLetters, insights, recommendations>>

\* getStats resolves: the try block and the finally of fetchStats and, when
\* resetProgress awaits it, the finally of resetProgress
getStatsResponded ==
    /\ statsOp \in {"fetch", "refresh"}
    /\ LET data == StatsResponse(serverLetters)
           lettersData == Coalesce(data.letters, <<>>)
       IN  /\ learnerStats' = <<data>>
           /\ learnerLetters' = lettersData
           /\ insights' = <<calculateLearningInsights(lettersData)>>
    /\ statsLoading' = FALSE
    /\ statsOp' = "idle"
    /\ UNCHANGED <<serverLetters, statsError, recommendations>>

\* getStats rejects: the catch and the finally of fetchStats
getStatsFailed ==
    /\ statsOp \in {"fetch", "refresh"}
    /\ statsError' = <<"Failed to fetch statistics">>
    /\ statsLoading' = FALSE
    /\ statsOp' = "idle"
    /\ UNCHANGED <<serverLetters, learnerStats, learnerLetters, insights, recommendations>>

\* Reset Progress, confirmed: resetProgress() up to the await of the post
resetProgress ==
    /\ statsOp = "idle"
    /\ statsError = NoError
    /\ insights # <<>>
    /\ IF userId = <<>>
       THEN UNCHANGED <<statsLoading, statsOp>>
       ELSE statsLoading' = TRUE /\ statsOp' = "reset"
    /\ UNCHANGED <<serverLetters, learnerStats, learnerLetters, insights, statsError,
                   recommendations>>

\* variant: resetProgress does not refresh the statistics
resetResponded_noRefresh ==
    /\ statsOp = "reset"
    /\ serverLetters' = ResetLetters(serverLetters)
    /\ statsLoading' = FALSE
    /\ statsOp' = "idle"
    /\ UNCHANGED <<learnerStats, learnerLetters, insights, statsError, recommendations>>

\* the reset post resolves: the backend has reset the records and
\* resetProgress goes on to await fetchStats()
resetResponded ==
    /\ statsOp = "reset"
    /\ serverLetters' = ResetLetters(serverLetters)
    /\ BeginFetchStats("refresh")
    /\ UNCHANGED <<learnerStats, learnerLetters, insights, recommendations>>

\* the reset post rejects, whether or not the backend served it: the catch
\* and the finally of resetProgress
resetFailed ==
    /\ statsOp = "reset"
    /\ \E served \in BOOLEAN :
           serverLetters' = IF served THEN ResetLetters(serverLetters) ELSE serverLetters
    /\ statsError' = <<"Failed to reset progress">>
    /\ statsLoading' = FALSE
    /\ statsOp' = "idle"
    /\ UNCHANGED <<learnerStats, learnerLetters, insights, recommendations>>

NoRecommendations == <<>>

\* a call of generateRecommendations(learnerStats)
computeRecommendations ==
    /\ recommendations' = <<generateRecommendations(learnerStats)>>
    /\ UNCHANGED <<serverLetters, statsOp, learnerStats, learnerLetters, insights,
                   statsLoading, statsError>>

-----------------------------------------------------------------------------
(* The letter-step endpoint (POST /api/learning/step) of the backend: the  *)
(* letter of the request's available_letters with the highest priority,    *)
(* then the fewest attempts, then the first in the alphabet.               *)

Alphabet == <<"a", "b", "c">>
Letters == {Alphabet[i] : i \in 1..Len(Alphabet)}
LetterIndex(l) == CHOOSE i \in 1..Len(Alphabet) : Alphabet[i] = l

\* candidate c replaces the best letter b found so far
Better(c, b) ==
    LET pc == calculateSelectionPriority(records[c], userDifficulty)
        pb == calculateSelectionPriority(records[b], userDifficulty)
    IN  RLt(pb, pc) \/ (pc = pb /\ records[c].attempts < records[b].attempts)

\* scan of the alphabet from position i on, best = <<>> or <<letter>>
RECURSIVE SelectFrom(_, _, _)
SelectFrom(i, best, available) ==
    IF i > Len(Alphabet) THEN best
    ELSE LET c == Alphabet[i]
         IN  IF c \in available /\ (best = <<>> \/ Better(c, best[1]))
             THEN SelectFrom(i + 1, <<c>>, available)
             ELSE SelectFrom(i + 1, best, available)

SelectNextLetter(available) == SelectFrom(1, <<>>, available)

\* the response body: {next_letter, ...}; it carries no field "letter"
BackendStep(body) ==
    [ letter |-> Undefined, next_letter |-> SelectNextLetter(body.available_letters) ]

-----------------------------------------------------------------------------
(* learningService.getStep and the useNextLetter hook *)

\* variant: the request names the whole alphabet instead of the caller's set
StepRequestBody_wholeAlphabet(user, available) ==
    [ user_id |-> user, available_letters |-> Letters ]

\* the body getStep posts
StepRequestBody(user, available) ==
    [ user_id |-> user, available_letters |-> available ]

\* getStep: the letter to send to the Braille display (an object response)
LetterToSend(response) ==
    IF ~Nullish(response.letter) THEN response.letter
    ELSE IF ~Nullish(response.next_letter) THEN response.next_letter
    ELSE <<>>

\* useNextLetter.fetchNextLetter(letters) up to the await; letters is
\* undefined or overrides the hook's availableLetters
fetchNextLetter(letters) ==
    /\ request = <<>>
    /\ IF userId = <<>>
       THEN /\ error' = <<"User ID is required">>
            /\ UNCHANGED <<lettersToUse, request, loading>>
       ELSE /\ loading' = TRUE
            /\ error' = NoError
            /\ lettersToUse' = IF letters # <<>> THEN letters[1] ELSE availableLetters
            /\ request' = <<StepRequestBody(userId[1], lettersToUse')>>
    /\ UNCHANGED <<records, now, userDifficulty, userId, availableLetters,
                   nextLetter, brailleLetter>>
    /\ UNCHANGED scoringVars
    /\ UNCHANGED analysisVars

\* the step request is answered: getStep forwards the letter to the Braille
\* display (a failure of that post is swallowed) and returns the response,
\* which fetchNextLetter stores
getStepResponded ==
    /\ request # <<>>
    /\ LET response == BackendStep(request[1])
           letterToSend == LetterToSend(response)
       IN  /\ \E sent \in BOOLEAN :
                brailleLetter' = IF letterToSend # <<>> /\ sent
                                 THEN letterToSend ELSE brailleLetter
           /\ nextLetter' = <<response>>
    /\ loading' = FALSE
    /\ request' = <<>>
    /\ UNCHANGED <<records, now, userDifficulty, userId, availableLetters,
                   lettersToUse, error>>
    /\ UNCHANGED scoringVars
    /\ UNCHANGED analysisVars

\* the step request fails: getStep rejects and fetchNextLetter records it
getStepFailed ==
    /\ request # <<>>
    /\ error' = <<"Failed to fetch next letter">>
    /\ loading' = FALSE
    /\ request' = <<>>
    /\ UNCHANGED <<records, now, userDifficulty, userId, availableLetters,
                   lettersToUse, nextLetter, brailleLetter>>
    /\ UNCHANGED scoringVars
    /\ UNCHANGED analysisVars

clearNextLetter ==
    /\ nextLetter' = <<>>
    /\ error' = NoError
    /\ UNCHANGED <<records, now, userDifficulty, userId, availableLetters,
                   lettersToUse, request, loading, brailleLetter>>
    /\ UNCHANGED scoringVars
    /\ UNCHANGED analysisVars

-----------------------------------------------------------------------------
(* Inputs *)

MaxAttempts == 10

TenTrue == [i \in 1..10 |-> TRUE]

RecentInputs ==
    { <<>>,
      TenTrue,
      <<TRUE, TRUE, FALSE, TRUE, TRUE>>,
      <<FALSE>> \o TenTrue }

StreakInputs == {-1, 3, 6}

ResponseTimeInputs == {Rat(-1, 1), Rat(2, 1), Rat(15, 2)}

\* LetterStats records as the stats endpoint may deliver them, malformed
\* ones (negative counts, correct > attempts) included
StatsInputs ==
    [ attempts          : -1..MaxAttempts,
      correct           : -1..(MaxAttempts + 1),
      avg_response_time : ResponseTimeInputs,
      streak            : StreakInputs,
      recent_results    : RecentInputs ]

\* bodies of GET /api/constants: every field is optional
ConstantsPayloads ==
    { [ MAX_RESPONSE_TIME        |-> <<Rat(5, 1)>>,
        MASTERY_HIGH             |-> <<Rat(9, 10)>>,
        MASTERY_MID              |-> <<Rat(1, 2)>>,
        MIN_ATTEMPTS_FOR_MASTERY |-> <<0>>,
        CONFIDENCE_Z_SCORE       |-> <<Rat(258, 100)>> ],
      [ MAX_RESPONSE_TIME        |-> <<R(0)>>,
        MASTERY_HIGH             |-> Undefined,
        MASTERY_MID              |-> Undefined,
        MIN_ATTEMPTS_FOR_MASTERY |-> Undefined,
        CONFIDENCE_Z_SCORE       |-> Undefined ] }

-----------------------------------------------------------------------------
(* Operations of the scoring client *)

\* letter records as the backend keeps them; optional fields are <<>> when
\* the record does not carry them
Epoch == 1700000000
TickSeconds == 54000
MaxTicks == 2

FreshRecord ==
    [ attempts |-> 0, correct |-> 0, next_review |-> Undefined,
      retention |-> Undefined, last_seen |-> Undefined,
      easiness_factor |-> Undefined, repetition |-> Undefined,
      trend |-> "", difficulty |-> Undefined ]

\* same priority as FreshRecord, more attempts
TriedRecord == [FreshRecord EXCEPT !.attempts = 2, !.correct = 2]

\* review two days overdue, remembered at 50%, declining
OverdueRecord ==
    [ attempts |-> 5, correct |-> 2, next_review |-> <<Epoch - 2 * 86400>>,
      retention |-> <<Rat(1, 2)>>, last_seen |-> <<Epoch - 3 * 86400>>,
      easiness_factor |-> <<Rat(13, 10)>>, repetition |-> <<1>>,
      trend |-> "declining", difficulty |-> <<Rat(8, 10)>> ]

\* practised 15 hours ago, review not yet due, retention left to the
\* forgetting curve
PractisedRecord ==
    [ attempts |-> 8, correct |-> 4, next_review |-> <<Epoch + 86400>>,
      retention |-> Undefined, last_seen |-> <<Epoch - TickSeconds>>,
      easiness_factor |-> Undefined, repetition |-> Undefined,
      trend |-> "stable", difficulty |-> <<Rat(3, 10)>> ]

RecordInputs == {FreshRecord, TriedRecord, OverdueRecord, PractisedRecord}
DifficultyInputs == {Rat(1, 2), Rat(3, 10)}
\* stats records for the priority function: every combination of
\*   next_review  missing, 0, two days ago, ten days ago, 15 hours ahead
\*   retention    missing, 0, 0.5, 0.9
\*   last_seen    missing, 15 hours ago, a day ago, a day ahead
\*   easiness_factor and repetition   missing, or 1.3 and 1
\*   trend        none, declining, stable
\*   difficulty   missing, 0, 0.3, 1
\* for an accuracy below and above MASTERY_MID
PriorityStatsInputs ==
    { [ attempts |-> 4, correct |-> c, next_review |-> nr, retention |-> r,
        last_seen |-> ls, easiness_factor |-> sm[1], repetition |-> sm[2],
        trend |-> t, difficulty |-> d ] :
        c \in {1, 4},
        nr \in {Undefined, <<0>>, <<Epoch - 2 * 86400>>, <<Epoch - 10 * 86400>>,
                <<Epoch + TickSeconds>>},
        r \in {Undefined, <<R(0)>>, <<Rat(1, 2)>>, <<Rat(9, 10)>>},
        ls \in {Undefined, <<Epoch - TickSeconds>>, <<Epoch - 86400>>, <<Epoch + 86400>>},
        sm \in {<<Undefined, Undefined>>, <<<<Rat(13, 10)>>, <<1>>>>},
        t \in {"", "declining", "stable"},
        d \in {Undefined, <<R(0)>>, <<Rat(3, 10)>>, <<R(1)>>} }

\* recent results: every list of up to MaxResults booleans, or none
MaxResults == 6
ResultsInputs ==
    {Undefined} \cup {<<r>> : r \in UNION {[1..k -> BOOLEAN] : k \in 0..MaxResults}}

\* overall accuracies: the multiples of 0.05 in [0, 1], or none
AccuracyInputs == {Undefined} \cup {<<Rat(k, 20)>> : k \in 0..20}

\* response times: every list of up to MaxTimes times of 1, 3 or 6 seconds,
\* or none
MaxTimes == 7
TimesInputs ==
    {Undefined} \cup {<<t>> : t \in UNION {[1..k -> {1, 3, 6}] : k \in 0..MaxTimes}}

NoTrend == ""

\* the records the backend may hold for letter l:
\*   never practised, carrying the level "new"
\*   mastered, carrying level, score and retention
\*   weak by its computed score, due for review, half forgotten, declining
\*   malformed (correct > attempts), due for review, retention 0
\*   malformed (negative counts and streak)
\*   two attempts, both correct
\*   five attempts, due for review, no retention, carrying a score
LetterInputs(l) ==
    { [DefaultLetterStats(l) EXCEPT !.mastery_level = "new"],
      [ letter |-> l, attempts |-> 10, correct |-> 10, avg_response_time |-> R(2),
        streak |-> 6, recent_results |-> TenTrue, needs_review |-> FALSE,
        trend |-> "improving", mastery_level |-> "mastered",
        skill_score |-> <<Rat(9, 10)>>, retention |-> <<Rat(9, 10)>> ],
      [ letter |-> l, attempts |-> 6, correct |-> 1, avg_response_time |-> Rat(15, 2),
        streak |-> 0, recent_results |-> <<FALSE, FALSE, TRUE, FALSE, FALSE, FALSE>>,
        needs_review |-> TRUE, trend |-> "declining", mastery_level |-> "",
        skill_score |-> Undefined, retention |-> <<Rat(1, 2)>> ],
      [ letter |-> l, attempts |-> 2, correct |-> 3, avg_response_time |-> R(2),
        streak |-> 3, recent_results |-> <<TRUE, TRUE>>, needs_review |-> TRUE,
        trend |-> "stable", mastery_level |-> "", skill_score |-> Undefined,
        retention |-> <<R(0)>> ],
      [ letter |-> l, attempts |-> -1, correct |-> -1, avg_response_time |-> R(2),
        streak |-> -1, recent_results |-> <<>>, needs_review |-> FALSE,
        trend |-> "", mastery_level |-> "", skill_score |-> Undefined,
        retention |-> Undefined ],
      [ letter |-> l, attempts |-> 2, correct |-> 2, avg_response_time |-> R(2),
        streak |-> 2, recent_results |-> <<TRUE, TRUE>>, needs_review |-> FALSE,
        trend |-> "", mastery_level |-> "", skill_score |-> Undefined,
        retention |-> Undefined ],
      [ letter |-> l, attempts |-> 5, correct |-> 4, avg_response_time |-> R(2),
        streak |-> 3, recent_results |-> <<TRUE, FALSE, TRUE, TRUE, TRUE>>,
        needs_review |-> TRUE, trend |-> "stable", mastery_level |-> "",
        skill_score |-> <<Rat(7, 10)>>, retention |-> Undefined ] }

\* the lists of records the backend may hold: one record for each of the
\* first k letters of the alphabet
ServerInputs ==
    UNION { { held \in [1..k -> UNION {LetterInputs(l) : l \in Letters}] :
                \A i \in 1..k : held[i].letter = Alphabet[i] } :
            k \in 0..Len(Alphabet) }

\* learner difficulty levels, the ends of [0, 1] included
LevelInputs == DifficultyInputs \cup {R(0), R(1)}

NoPriority == <<>>

\* the argument of fetchNextLetter: left out, or an override
LettersInputs == {Undefined, <<{"c"}>>, <<{"a", "b"}>>}

NoCard == <<>>

\* useLearningStats.getLetterStats / LetterStatsCard: all derived metrics of
\* one letter record, computed with the thresholds as they are at the call
LetterCard(letterData) ==
    [ accuracy           |-> calculateAccuracy(letterData),
      skillScore         |-> calculateSkillScore(letterData),
      masteryLevel       |-> calculateMasteryLevel(letterData),
      probabilityCorrect |-> calculateProbabilityCorrect(letterData),
      confidenceInterval |-> calculateConfidenceInterval(letterData) ]

getLetterStats ==
    /\ card' = <<LetterCard(letterStats)>>
    /\ UNCHANGED <<LEARNING_CONSTANTS, fetchResult, letterStats>>
    /\ UNCHANGED stepVars
    /\ UNCHANGED analysisVars

\* fetchLearningConstants, the request answered with a JSON body
fetchLearningConstants(data) ==
    /\ LEARNING_CONSTANTS' = AssignConstants(LEARNING_CONSTANTS, data)
    /\ fetchResult' = "ok"
    /\ UNCHANGED <<letterStats, card>>
    /\ UNCHANGED stepVars
    /\ UNCHANGED analysisVars

\* fetchLearningConstants, the request failed: the catch branch warns and
\* returns the constants as they are
fetchLearningConstantsFailed ==
    /\ fetchResult' = "warned"
    /\ UNCHANGED <<LEARNING_CONSTANTS, letterStats, card>>
    /\ UNCHANGED stepVars
    /\ UNCHANGED analysisVars

-----------------------------------------------------------------------------
(* The Braille display firmware (main.cpp) *)

RAISED_ANGLE == 90
LOWERED_ANGLE == 0

\* the six servos, servos[1] of the model being servos[0] of the firmware
ServoIndexes == 1..6

\* the value of a 0b literal, its digits written as in the source
Bin(digits) ==
    digits[1] * 32 + digits[2] * 16 + digits[3] * 8
        + digits[4] * 4 + digits[5] * 2 + digits[6]

braillePatterns ==
    << Bin(<<1,0,0,0,0,0>>), Bin(<<1,1,0,0,0,0>>), Bin(<<1,0,0,1,0,0>>),
       Bin(<<1,0,0,1,1,0>>), Bin(<<1,0,0,0,1,0>>), Bin(<<1,1,0,1,0,0>>),
       Bin(<<1,1,0,1,1,0>>), Bin(<<1,1,0,0,1,0>>), Bin(<<0,1,0,1,0,0>>),
       Bin(<<0,1,0,1,1,0>>), Bin(<<1,0,1,0,0,0>>), Bin(<<1,1,1,0,0,0>>),
       Bin(<<1,0,1,1,0,0>>), Bin(<<1,0,1,1,1,0>>), Bin(<<1,0,1,0,1,0>>),
       Bin(<<1,1,1,1,0,0>>), Bin(<<1,1,1,1,1,0>>), Bin(<<1,1,1,0,1,0>>),
       Bin(<<0,1,1,1,0,0>>), Bin(<<0,1,1,1,1,0>>), Bin(<<1,0,1,0,0,1>>),
       Bin(<<1,1,1,0,0,1>>), Bin(<<0,1,0,1,1,1>>), Bin(<<1,0,1,1,0,1>>),
       Bin(<<1,0,1,1,1,1>>), Bin(<<1,0,1,0,1,1>>) >>

\* the dots the comments of the braillePatterns table give for A..Z
DocumentedDots ==
    << {1}, {1,2}, {1,4}, {1,4,5}, {1,5}, {1,2,4}, {1,2,4,5}, {1,2,5},
       {2,4}, {2,4,5}, {1,3}, {1,2,3}, {1,3,4}, {1,3,4,5}, {1,3,5},
       {1,2,3,4}, {1,2,3,4,5}, {1,2,3,5}, {2,3,4}, {2,3,4,5}, {1,3,6},
       {1,2,3,6}, {2,4,5,6}, {1,3,4,6}, {1,3,4,5,6}, {1,3,5,6} >>

\* (pattern >> i) & 1
BitOf(pattern, i) == (pattern \div (2 ^ i)) % 2

\* the angles updateBrailleServos(pattern) writes
updateBrailleServos(pattern) ==
    [ j \in ServoIndexes |->
        IF BitOf(pattern, j - 1) = 1 THEN RAISED_ANGLE ELSE LOWERED_ANGLE ]

\* the angles setAllServosLowered() writes
setAllServosLowered == [ j \in ServoIndexes |-> LOWERED_ANGLE ]

\* character codes
CodeUpperA == 65
CodeUpperZ == 90
CodeLowerA == 97
CodeLowerZ == 122

\* variant: the first byte is not converted to upper case
mqttCallback_caseSensitive(payload) ==
    /\ message' = <<payload>>
    /\ IF Len(payload) = 0 THEN UNCHANGED servos
       ELSE LET letter == payload[1]
            IN  IF letter >= CodeUpperA /\ letter <= CodeUpperZ
                THEN servos' = updateBrailleServos(braillePatterns[letter - CodeUpperA + 1])
                ELSE servos' = setAllServosLowered

\* mqttCallback(topic, payload, length); a byte is 0..255, and a char is
\* unsigned on this target
mqttCallback(payload) ==
    /\ message' = <<payload>>
    /\ IF Len(payload) = 0 THEN UNCHANGED servos
       ELSE LET first == payload[1]
                letter == IF first >= CodeLowerA /\ first <= CodeLowerZ
                          THEN first - 32 ELSE first
            IN  IF letter >= CodeUpperA /\ letter <= CodeUpperZ
                THEN servos' = updateBrailleServos(braillePatterns[letter - CodeUpperA + 1])
                ELSE servos' = setAllServosLowered

\* the firmware after setup(): every servo lowered, nothing received
NoMessage == <<>>

FirmwareIdle ==
    /\ servos = setAllServosLowered
    /\ message = NoMessage

\* first bytes of a message: every letter in both cases and the bytes around
\* the two ranges
FirstBytes ==
    (CodeUpperA..CodeUpperZ) \cup (CodeLowerA..CodeLowerZ)
        \cup {0, 32, 48, 64, 91, 96, 123, 200, 255}

\* the bytes that follow the first
LaterBytes == {0, 66, 122}

MaxPayload == 2

RECURSIVE Tails(_)
Tails(n) ==
    IF n = 0 THEN {<<>>}
    ELSE Tails(n - 1) \cup
         {Append(t, b) : t \in {u \in Tails(n - 1) : Len(u) = n - 1}, b \in LaterBytes}

PayloadInputs ==
    {<<>>} \cup {<<b>> \o t : b \in FirstBytes, t \in Tails(MaxPayload - 1)}

-----------------------------------------------------------------------------
(* The cloud speech service (SpeechService.js) and its hook *)

AUTO_STOP_SECONDS == 5

MaxRecordings == 2
MaxElapsed == 8
MaxStarting == 2

\* who ended a recording: nobody yet, a stop() or abort() call, or the
\* auto-stop timer armed when recording k began (k itself)
NotStopped == 0
ByCall == -1

\* this.onStart / onEnd / onResult / onNoSpeech / onError as the hook sets them
Deliver(recording, callback) == Append(events, [of |-> recording, callback |-> callback])

HookAfter(callback) ==
    IF callback = "onStart" THEN TRUE
    ELSE IF callback = "onEnd" THEN FALSE
    ELSE hookListening

\* the hook's start(): setError(null), then the service's start() up to its
\* await of getUserMedia
start ==
    /\ isListening \/ ~apiKey
         \/ (starting < MaxStarting /\ Len(recorders) + starting < MaxRecordings)
    /\ IF isListening THEN speechError' = NoError /\ UNCHANGED starting
       ELSE IF ~apiKey
            THEN speechError' = <<"API key not configured">> /\ UNCHANGED starting
            ELSE speechError' = NoError /\ starting' = starting + 1
    /\ UNCHANGED <<apiKey, isListening, mediaRecorder, audioChunks, recorders,
                   timers, elapsed, recognizing, events, hookListening>>

\* getUserMedia resolved: the recorder is created and started, and the
\* auto-stop timer is armed
microphoneGranted ==
    /\ starting > 0
    /\ starting' = starting - 1
    /\ LET recording == Len(recorders) + 1
       IN  /\ recorders' = Append(recorders,
                              [ state |-> "recording", startedAt |-> elapsed,
                                stoppedAt |-> elapsed, stoppedBy |-> NotStopped ])
           /\ mediaRecorder' = recording
           /\ events' = Deliver(recording, "onStart")
           /\ timers' = timers \cup {[of |-> recording, at |-> elapsed + AUTO_STOP_SECONDS]}
    /\ audioChunks' = 0
    /\ isListening' = TRUE
    /\ hookListening' = HookAfter("onStart")
    /\ speechError' = NoError
    /\ UNCHANGED <<apiKey, elapsed, recognizing>>

\* getUserMedia rejected: onError and isListening = false
microphoneDenied ==
    /\ starting > 0
    /\ starting' = starting - 1
    /\ isListening' = FALSE
    /\ speechError' = <<"Microphone access denied or not supported">>
    /\ UNCHANGED <<apiKey, mediaRecorder, audioChunks, recorders, timers,
                   elapsed, recognizing, events, hookListening>>

\* the recorders after stop(), called by `cause`
StopRecorder(cause) ==
    IF isListening /\ mediaRecorder # 0 /\ recorders[mediaRecorder].state # "inactive"
    THEN [recorders EXCEPT ![mediaRecorder] =
             [@ EXCEPT !.state = "inactive", !.stoppedAt = elapsed, !.stoppedBy = cause]]
    ELSE recorders

\* stop()
stop ==
    /\ recorders' = StopRecorder(ByCall)
    /\ UNCHANGED <<apiKey, isListening, mediaRecorder, audioChunks, starting,
                   timers, elapsed, recognizing, events, hookListening,
                   speechError>>

\* abort(): stop(), then _cleanup()
abort ==
    /\ recorders' = StopRecorder(ByCall)
    /\ mediaRecorder' = 0
    /\ audioChunks' = 0
    /\ UNCHANGED <<apiKey, isListening, starting, timers, elapsed, recognizing,
                   events, hookListening,
                   speechError>>

\* the setTimeout callback: if (this.isListening) this.stop()
autoStop ==
    \E timer \in timers :
        /\ timer.at = elapsed
        /\ timers' = timers \ {timer}
        /\ recorders' = StopRecorder(timer.of)
        /\ UNCHANGED <<apiKey, isListening, mediaRecorder, audioChunks, starting,
                       elapsed, recognizing, events, hookListening,
                   speechError>>

\* a second passes; a timer that is due fires first
secondPasses ==
    /\ elapsed < MaxElapsed
    /\ \A timer \in timers : timer.at > elapsed
    /\ elapsed' = elapsed + 1
    /\ UNCHANGED <<apiKey, isListening, mediaRecorder, audioChunks, recorders,
                   starting, timers, recognizing, events, hookListening,
                   speechError>>

\* a stopped recorder's dataavailable and stop events: ondataavailable keeps
\* a chunk that is not empty, then onstop runs _processAudio() up to its
\* return, _cleanup(), isListening = false and onEnd
onstop(recording, hasData) ==
    /\ recorders[recording].state = "inactive"
    /\ recorders' = [recorders EXCEPT ![recording].state = "stopped"]
    /\ LET chunks == IF hasData THEN audioChunks + 1 ELSE audioChunks
           outcome == IF chunks = 0
                      THEN Append(events, [of |-> recording, callback |-> "onError"])
                      ELSE events
       IN  /\ recognizing' = IF chunks = 0 THEN recognizing
                             ELSE recognizing \cup {recording}
           /\ events' = Append(outcome, [of |-> recording, callback |-> "onEnd"])
           /\ speechError' = IF chunks = 0 THEN <<"No audio recorded">> ELSE speechError
    /\ mediaRecorder' = 0
    /\ audioChunks' = 0
    /\ isListening' = FALSE
    /\ hookListening' = HookAfter("onEnd")
    /\ UNCHANGED <<apiKey, starting, timers, elapsed>>

\* reader.onloadend and the request to the recognition API complete:
\* onResult, onNoSpeech or onError
RecognitionOutcomes == {"onResult", "onNoSpeech", "onError"}

onloadend(recording, callback) ==
    /\ recording \in recognizing
    /\ recognizing' = recognizing \ {recording}
    /\ events' = Deliver(recording, callback)
    /\ hookListening' = HookAfter(callback)
    /\ speechError' = IF callback = "onError" THEN <<"Failed to recognize speech">>
                      ELSE speechError
    /\ UNCHANGED <<apiKey, isListening, mediaRecorder, audioChunks, recorders,
                   starting, timers, elapsed>>

\* the service as constructed and the hook as mounted
SpeechIdle ==
    /\ apiKey = TRUE
    /\ isListening = FALSE
    /\ mediaRecorder = 0
    /\ audioChunks = 0
    /\ recorders = <<>>
    /\ starting = 0
    /\ timers = {}
    /\ elapsed = 0
    /\ recognizing = {}
    /\ events = <<>>
    /\ hookListening = FALSE
    /\ speechError = NoError

-----------------------------------------------------------------------------
(* Browser speech recognition in LearningMode (LearningMode.jsx) *)

maxRetries == 2

\* at most this many timers of one kind are armed at a time
MaxTimers == 2

\* the recognizer of the Web Speech API: "idle"; "starting" once start() was
\* called; "active" after onstart; "ending" from an error, a final result
\* (continuous = false) or stop() until onend
RecognitionStates == {"idle", "starting", "active", "ending"}

\* the messages of setError
NoSpeechError == <<"No speech detected. Speak louder or closer to the mic.">>
RetryFailedError == <<"No speech detected. Tap mic to try again.">>
\* the message onerror sets for an event.error other than 'no-speech'
ErrorKinds == {"audio-capture", "not-allowed", "aborted", "network"}

ErrorMessage(kind) ==
    IF kind = "audio-capture"
    THEN <<"No microphone found. Please check your microphone.">>
    ELSE IF kind = "not-allowed"
    THEN <<"Microphone access denied. Please allow microphone access.">>
    ELSE IF kind = "aborted" THEN NoError
    ELSE <<"Speech error: network">>

\* what the recognizer hears
TranscriptInputs == {"a", "bee"}
CouldNotStartError == <<"Could not start speech recognition. Please refresh.">>

\* a result and the no-speech timeout take seconds of listening, the timers
\* 150 and 200 ms: a timer that is armed fires first
NoTimerArmed == retryTimers = 0 /\ restartTimers = 0

\* recognition.onstart
onstart ==
    /\ transcript' = ""
    /\ lastEvent' = "onstart"
    /\ recognition = "starting"
    /\ recognition' = "active"
    /\ isRecognitionActiveRef' = TRUE
    /\ listening' = TRUE
    /\ micError' = NoError
    /\ UNCHANGED <<retryCount, pendingRetryRef, retryCountRef, retryTimers,
                   restartTimers, restartsInRow>>

\* recognition.onresult, for an interim or a final result
onresult(isFinal, transcriptText) ==
    /\ transcript' = transcriptText
    /\ lastEvent' = "onresult"
    /\ NoTimerArmed
    /\ recognition = "active"
    /\ recognition' = IF isFinal THEN "ending" ELSE "active"
    /\ retryCountRef' = 0
    /\ retryCount' = 0
    /\ pendingRetryRef' = FALSE
    /\ restartsInRow' = 0
    /\ UNCHANGED <<listening, isRecognitionActiveRef, retryTimers, restartTimers,
                   micError>>

\* variant: one retry more than maxRetries
onerrorNoSpeech_oneMore ==
    /\ UNCHANGED transcript
    /\ lastEvent' = "no-speech"
    /\ NoTimerArmed
    /\ recognition = "active"
    /\ recognition' = "ending"
    /\ IF retryCountRef <= maxRetries
       THEN /\ retryCountRef' = retryCountRef + 1
            /\ retryCount' = retryCountRef + 1
            /\ pendingRetryRef' = TRUE
            /\ UNCHANGED <<micError, restartsInRow>>
       ELSE /\ retryCountRef' = 0
            /\ retryCount' = 0
            /\ pendingRetryRef' = FALSE
            /\ micError' = NoSpeechError
            /\ restartsInRow' = 0
    /\ UNCHANGED <<listening, isRecognitionActiveRef, retryTimers, restartTimers>>

\* recognition.onerror with event.error = 'no-speech'
onerrorNoSpeech ==
    /\ UNCHANGED transcript
    /\ lastEvent' = "no-speech"
    /\ NoTimerArmed
    /\ recognition = "active"
    /\ recognition' = "ending"
    /\ IF retryCountRef < maxRetries
       THEN /\ retryCountRef' = retryCountRef + 1
            /\ retryCount' = retryCountRef + 1
            /\ pendingRetryRef' = TRUE
            /\ UNCHANGED <<micError, restartsInRow>>
       ELSE /\ retryCountRef' = 0
            /\ retryCount' = 0
            /\ pendingRetryRef' = FALSE
            /\ micError' = NoSpeechError
            /\ restartsInRow' = 0
    /\ UNCHANGED <<listening, isRecognitionActiveRef, retryTimers, restartTimers>>

\* recognition.onerror with any other event.error
onerrorOther(kind) ==
    /\ UNCHANGED transcript
    /\ lastEvent' = "error"
    /\ recognition \in {"starting", "active"}
    /\ recognition' = "ending"
    /\ micError' = ErrorMessage(kind)
    /\ pendingRetryRef' = FALSE
    /\ retryCountRef' = 0
    /\ retryCount' = 0
    /\ restartsInRow' = 0
    /\ UNCHANGED <<listening, isRecognitionActiveRef, retryTimers, restartTimers>>

\* recognition.onend
onend ==
    /\ UNCHANGED transcript
    /\ lastEvent' = "onend"
    /\ recognition = "ending"
    /\ recognition' = "idle"
    /\ isRecognitionActiveRef' = FALSE
    /\ IF pendingRetryRef
       THEN /\ retryTimers < MaxTimers
            /\ retryTimers' = retryTimers + 1
            /\ UNCHANGED listening
       ELSE /\ listening' = FALSE
            /\ UNCHANGED retryTimers
    /\ UNCHANGED <<retryCount, pendingRetryRef, retryCountRef, restartTimers,
                   micError, restartsInRow>>

\* the callback of the 150 ms timer armed by onend; start() throws when the
\* recognizer is not idle
retryTimer ==
    /\ UNCHANGED transcript
    /\ lastEvent' = "retryTimer"
    /\ retryTimers > 0
    /\ retryTimers' = retryTimers - 1
    /\ IF pendingRetryRef /\ ~isRecognitionActiveRef
       THEN IF recognition = "idle"
            THEN /\ recognition' = "starting"
                 /\ restartsInRow' = restartsInRow + 1
                 /\ UNCHANGED <<listening, retryCount, pendingRetryRef,
                                retryCountRef, micError>>
            ELSE /\ pendingRetryRef' = FALSE
                 /\ retryCountRef' = 0
                 /\ retryCount' = 0
                 /\ listening' = FALSE
                 /\ micError' = RetryFailedError
                 /\ restartsInRow' = 0
                 /\ UNCHANGED recognition
       ELSE UNCHANGED <<recognition, listening, retryCount, pendingRetryRef,
                        retryCountRef, micError, restartsInRow>>
    /\ UNCHANGED <<isRecognitionActiveRef, restartTimers>>

\* handleMic() for a logged-in user with recognition supported
handleMic ==
    /\ UNCHANGED transcript
    /\ lastEvent' = IF listening \/ isRecognitionActiveRef THEN "stop" ELSE "start"
    /\ IF listening \/ isRecognitionActiveRef
           THEN /\ pendingRetryRef' = FALSE
                /\ retryCountRef' = 0
                /\ retryCount' = 0
                /\ restartsInRow' = 0
                /\ recognition' = IF recognition \in {"starting", "active"} THEN "ending"
                                  ELSE recognition
                /\ micError' = NoError
                /\ UNCHANGED <<listening, isRecognitionActiveRef, retryTimers,
                               restartTimers>>
           ELSE IF recognition = "idle"
                THEN /\ recognition' = "starting"
                     /\ micError' = NoError
                     /\ UNCHANGED <<listening, retryCount, isRecognitionActiveRef,
                                    pendingRetryRef, retryCountRef, retryTimers,
                                    restartTimers, restartsInRow>>
                ELSE /\ restartTimers < MaxTimers
                     /\ pendingRetryRef' = FALSE
                     /\ recognition' = IF recognition \in {"starting", "active"} THEN "ending"
                                       ELSE recognition
                     /\ restartTimers' = restartTimers + 1
                     /\ micError' = NoError
                     /\ UNCHANGED <<listening, retryCount, isRecognitionActiveRef,
                                    retryCountRef, retryTimers, restartsInRow>>

\* the callback of the 200 ms timer armed by handleMic
restartTimer ==
    /\ UNCHANGED transcript
    /\ lastEvent' = "restartTimer"
    /\ restartTimers > 0
    /\ restartTimers' = restartTimers - 1
    /\ IF ~isRecognitionActiveRef
       THEN IF recognition = "idle"
            THEN recognition' = "starting" /\ UNCHANGED micError
            ELSE micError' = CouldNotStartError /\ UNCHANGED recognition
       ELSE UNCHANGED <<recognition, micError>>
    /\ UNCHANGED <<listening, retryCount, isRecognitionActiveRef, pendingRetryRef,
                   retryCountRef, retryTimers, restartsInRow>>

\* LearningMode as mounted, the recognizer created
MicIdle ==
    /\ recognition = "idle"
    /\ listening = FALSE
    /\ retryCount = 0
    /\ isRecognitionActiveRef = FALSE
    /\ pendingRetryRef = FALSE
    /\ retryCountRef = 0
    /\ retryTimers = 0
    /\ restartTimers = 0
    /\ micError = NoError
    /\ restartsInRow = 0
    /\ lastEvent = ""
    /\ transcript = ""

-----------------------------------------------------------------------------
(* Adaptive LearningMode: the learning session (session-based client) *)

Users == {1, 2}
NoUser == 0
NoSession == 0

MaxSessions == 3

\* the lifecycle effect's body for the render it runs in: startSession() if
\* there is a user
EffectStartCalls(calls, u) ==
    IF u # NoUser THEN calls \cup {u} ELSE calls

\* the lifecycle effect's cleanup: if (sessionId) endSession(), both reading
\* the sessionId of the render the effect ran in
CleanupEndCalls ==
    IF effectSessionId # NoSession THEN endCalls \cup {effectSessionId}
    ELSE endCalls

\* api.startSession resolves: setSessionId(response.session_id)
startSessionResponded(u) ==
    /\ u \in startCalls
    /\ created < MaxSessions
    /\ startCalls' = startCalls \ {u}
    /\ created' = created + 1
    /\ openSessions' = openSessions \cup {created + 1}
    /\ IF mounted
       THEN /\ sessionId' = created + 1
            /\ storedSessions' = storedSessions \cup {created + 1}
       ELSE UNCHANGED <<sessionId, storedSessions>>
    /\ UNCHANGED <<mounted, authUser, effectSessionId, endCalls>>

\* api.startSession rejects: setApiError
startSessionFailed(u) ==
    /\ u \in startCalls
    /\ startCalls' = startCalls \ {u}
    /\ UNCHANGED <<mounted, authUser, sessionId, effectSessionId, openSessions,
                   created, storedSessions, endCalls>>

\* the user changes: the effect's cleanup runs, then the effect runs again in
\* the current render
userChanged(u) ==
    /\ mounted
    /\ u # authUser
    /\ u \notin startCalls
    /\ authUser' = u
    /\ endCalls' = CleanupEndCalls
    /\ openSessions' = openSessions \ (CleanupEndCalls \ endCalls)
    /\ effectSessionId' = sessionId
    /\ startCalls' = EffectStartCalls(startCalls, u)
    /\ UNCHANGED <<mounted, sessionId, created, storedSessions>>

\* the component unmounts: the effect's cleanup runs
unmount ==
    /\ mounted
    /\ mounted' = FALSE
    /\ endCalls' = CleanupEndCalls
    /\ openSessions' = openSessions \ (CleanupEndCalls \ endCalls)
    /\ UNCHANGED <<authUser, sessionId, effectSessionId, startCalls, created,
                   storedSessions>>

\* the component as mounted for user u, its lifecycle effect run once
SessionMounted(u) ==
    /\ mounted = TRUE
    /\ authUser = u
    /\ sessionId = NoSession
    /\ effectSessionId = NoSession
    /\ startCalls = EffectStartCalls({}, u)
    /\ openSessions = {}
    /\ created = 0
    /\ storedSessions = {}
    /\ endCalls = {}

SessionIdle == SessionMounted(NoUser)

-----------------------------------------------------------------------------
(* TutorialMode (Tutorials.jsx) *)

\* ALPHABET.length - 1: positions are 0..25
LastIndex == 25

MaxInFlight == 2

MaxRequests == 4

\* the backend's tutorial: it keeps a position and steps it within the
\* alphabet
NextPosition(position) == IF position < LastIndex THEN position + 1 ELSE position
PreviousPosition(position) == IF position > 0 THEN position - 1 ELSE position

\* a request leaves: the backend serves it (or rejects it) and the answer
\* travels back with the currentIndex the handler's closure holds
Send(kind, served) ==
    /\ Len(inFlight) < MaxInFlight
    /\ sentRequests < MaxRequests
    /\ sentRequests' = sentRequests + 1
    /\ tutorialPosition' =
          IF ~served THEN tutorialPosition
          ELSE IF kind = "next" THEN NextPosition(tutorialPosition)
          ELSE PreviousPosition(tutorialPosition)
    /\ inFlight' = Append(inFlight,
                     [ kind |-> kind, index |-> currentIndex, served |-> served,
                       letter |-> tutorialPosition' ])

\* handleNext() up to its await
handleNext(served) ==
    IF currentIndex < LastIndex
    THEN /\ Send("next", served)
         /\ tutorialLoading' = TRUE
         /\ UNCHANGED <<currentIndex, currentLetter, tutorialError, practiceMode,
                        completed>>
    ELSE /\ completed' = (completed \/ served)
         /\ UNCHANGED <<currentIndex, currentLetter, tutorialLoading,
                        tutorialError, practiceMode, tutorialPosition, inFlight,
                        sentRequests>>

\* handlePrevious() up to its await
handlePrevious(served) ==
    IF currentIndex = 0
    THEN UNCHANGED tutorialVars
    ELSE /\ Send("previous", served)
         /\ tutorialLoading' = TRUE
         /\ UNCHANGED <<currentIndex, currentLetter, tutorialError, practiceMode,
                        completed>>

\* the Next button, disabled while loading; the completion screen and the
\* error screen have no buttons
pressNext(served) ==
    /\ ~completed
    /\ tutorialError = ""
    /\ ~tutorialLoading
    /\ handleNext(served)

\* the Previous button, disabled at index 0 and while loading
pressPrevious(served) ==
    /\ ~completed
    /\ tutorialError = ""
    /\ ~tutorialLoading
    /\ currentIndex # 0
    /\ handlePrevious(served)

\* handlePractice for a transcript that is a "next" or a "previous" command
handlePractice(command, served) ==
    /\ practiceMode
    /\ IF command = "next" THEN handleNext(served) ELSE handlePrevious(served)

\* togglePracticeMode()
togglePracticeMode ==
    /\ ~completed
    /\ tutorialError = ""
    /\ practiceMode' = ~practiceMode
    /\ UNCHANGED <<currentIndex, currentLetter, tutorialLoading, tutorialError,
                   completed, tutorialPosition, inFlight, sentRequests>>

\* the i-th request in flight is answered: the handler continues after its
\* await, and the effect on [currentIndex, currentLetter] ends practice mode
\* when a new step is displayed
answered(i) ==
    /\ i \in 1..Len(inFlight)
    /\ LET answer == inFlight[i]
           index == IF answer.kind = "next" THEN answer.index + 1
                    ELSE answer.index - 1
       IN  /\ inFlight' = [j \in 1..(Len(inFlight) - 1) |->
                              IF j < i THEN inFlight[j] ELSE inFlight[j + 1]]
           /\ IF answer.served
              THEN /\ currentLetter' = answer.letter
                   /\ currentIndex' = index
                   /\ practiceMode' = FALSE
                   /\ UNCHANGED tutorialError
              ELSE /\ tutorialError' = IF answer.kind = "next"
                                       THEN "Failed to go to next letter"
                                       ELSE "Failed to go to previous letter"
                   /\ UNCHANGED <<currentLetter, currentIndex, practiceMode>>
    /\ tutorialLoading' = FALSE
    /\ UNCHANGED <<completed, tutorialPosition, sentRequests>>

\* the tutorial once initTutorial has loaded the current step, at position p
TutorialAt(position) ==
    /\ currentIndex = position
    /\ currentLetter = position
    /\ tutorialLoading = FALSE
    /\ tutorialError = ""
    /\ practiceMode = FALSE
    /\ completed = FALSE
    /\ tutorialPosition = position
    /\ inFlight = <<>>
    /\ sentRequests = 0

TutorialIdle == TutorialAt(0)

-----------------------------------------------------------------------------
(* utils/Braille.jsx: getLetterDots; a string is the sequence of its
   character codes *)

\* String.prototype.toLowerCase on the characters used here
toLowerCase(text) ==
    [ j \in 1..Len(text) |->
        IF text[j] >= CodeUpperA /\ text[j] <= CodeUpperZ
        THEN text[j] + (CodeLowerA - CodeUpperA) ELSE text[j] ]

\* the brailleMap literal, 'a' first
brailleMap ==
    << <<1>>, <<1,2>>, <<1,4>>, <<1,4,5>>, <<1,5>>, <<1,2,4>>, <<1,2,4,5>>,
       <<1,2,5>>, <<2,4>>, <<2,4,5>>, <<1,3>>, <<1,2,3>>, <<1,3,4>>,
       <<1,3,4,5>>, <<1,3,5>>, <<1,2,3,4>>, <<1,2,3,4,5>>, <<1,2,3,5>>,
       <<2,3,4>>, <<2,3,4,5>>, <<3,6>>, <<1,2,3,6>>, <<2,4,5,6>>,
       <<1,3,4,6>>, <<1,3,4,5,6>>, <<1,3,5,6>> >>

\* getLetterDots(letter): brailleMap[normalized] || []
getLetterDots(text) ==
    LET normalized == toLowerCase(text)
    IN  IF Len(normalized) = 1 /\ normalized[1] >= CodeLowerA
                               /\ normalized[1] <= CodeLowerZ
        THEN brailleMap[normalized[1] - CodeLowerA + 1]
        ELSE <<>>

\* characters of the arguments: every letter of either case, and a space,
\* a digit and the characters next to the letters
TextCharacters ==
    (CodeUpperA..CodeUpperZ) \cup (CodeLowerA..CodeLowerZ)
        \cup {32, 48, 64, 91, 96, 123}

\* characters of the arguments of two characters
PairCharacters == {CodeUpperA, CodeLowerA, CodeLowerZ, 117, 32, 48, 91}

\* the empty string, every string of one character, and strings of two
TextInputs ==
    {<<>>} \cup { <<c>> : c \in TextCharacters }
        \cup { <<c, d>> : c \in PairCharacters, d \in PairCharacters }

\* a caller looks a letter up
lookUp(text) ==
    /\ lookupLetter' = <<text>>
    /\ lookupDots' = getLetterDots(text)

LookupIdle ==
    /\ lookupLetter = <<>>
    /\ lookupDots = <<>>

PeripheralIdle ==
    /\ FirmwareIdle
    /\ SpeechIdle
    /\ MicIdle
    /\ SessionIdle
    /\ TutorialIdle
    /\ LookupIdle

\* no priority computed
PriorityIdle ==
    /\ candidate = Null
    /\ priority = NoPriority

\* no trend analysed
TrendIdle ==
    /\ trendResults = Undefined
    /\ trendAccuracy = Undefined
    /\ trendTimes = Undefined
    /\ performanceTrend = NoTrend
    /\ responseTimeTrend = NoTrend

\* the statistics hook before its mount effect has run
StatsIdle ==
    /\ statsOp = "idle"
    /\ learnerStats = NoStats
    /\ learnerLetters = <<>>
    /\ insights = <<>>
    /\ statsLoading = FALSE
    /\ statsError = NoError
    /\ recommendations = NoRecommendations

AnalysisIdle ==
    /\ PriorityIdle
    /\ TrendIdle
    /\ serverLetters = <<>>
    /\ StatsIdle
    /\ PeripheralIdle

\* the hook before any request: no response stored, nothing in flight
StepIdle ==
    /\ lettersToUse = {}
    /\ request = <<>>
    /\ loading = FALSE
    /\ nextLetter = <<>>
    /\ error = NoError
    /\ brailleLetter = <<>>

Init ==
    /\ LEARNING_CONSTANTS = DefaultConstants
    /\ fetchResult = "none"
    /\ letterStats \in StatsInputs
    /\ card = NoCard
    /\ records = [l \in Letters |-> FreshRecord]
    /\ now = Epoch
    /\ userDifficulty = Rat(1, 2)
    /\ userId = <<"u1">>
    /\ availableLetters = Letters
    /\ StepIdle
    /\ AnalysisIdle

Next ==
    \/ getLetterStats
    \/ \E data \in ConstantsPayloads : fetchLearningConstants(data)
    \/ fetchLearningConstantsFailed

Spec == Init /\ [][Next]_vars

\* the clock advances between two operations
Tick ==
    /\ now < Epoch + MaxTicks * TickSeconds
    /\ now' = now + TickSeconds
    /\ UNCHANGED <<records, userDifficulty, userId, availableLetters,
                   lettersToUse, request, loading, nextLetter, error,
                   brailleLetter>>
    /\ UNCHANGED scoringVars
    /\ UNCHANGED analysisVars

SelectInit ==
    /\ LEARNING_CONSTANTS = DefaultConstants
    /\ fetchResult = "none"
    /\ letterStats = FreshRecord
    /\ card = NoCard
    /\ records \in [Letters -> RecordInputs]
    /\ now = Epoch
    /\ userDifficulty \in DifficultyInputs
    /\ userId \in {<<>>, <<"u1">>}
    /\ availableLetters \in (SUBSET Letters) \ {{}}
    /\ StepIdle
    /\ AnalysisIdle

SelectNext ==
    \/ \E letters \in LettersInputs : fetchNextLetter(letters)
    \/ getStepResponded
    \/ getStepFailed
    \/ clearNextLetter
    \/ Tick

SelectSpec == SelectInit /\ [][SelectNext]_vars

-----------------------------------------------------------------------------
(* The priority function on its own *)

\* a call of calculateSelectionPriority(candidate, userDifficulty)
computePriority ==
    /\ priority' = <<[ total |-> calculateSelectionPriority(candidate, userDifficulty),
                       parts |-> PriorityParts(candidate, userDifficulty) ]>>
    /\ UNCHANGED candidate
    /\ UNCHANGED scoringVars
    /\ UNCHANGED stepVars
    /\ UNCHANGED trendVars
    /\ UNCHANGED statsVars
    /\ UNCHANGED peripheralVars

PriorityInit ==
    /\ LEARNING_CONSTANTS = DefaultConstants
    /\ fetchResult = "none"
    /\ letterStats = FreshRecord
    /\ card = NoCard
    /\ records = [l \in Letters |-> FreshRecord]
    /\ now = Epoch
    /\ userDifficulty \in LevelInputs
    /\ userId = <<"u1">>
    /\ availableLetters = Letters
    /\ StepIdle
    /\ candidate \in PriorityStatsInputs
    /\ priority = NoPriority
    /\ TrendIdle
    /\ serverLetters = <<>>
    /\ StatsIdle
    /\ PeripheralIdle

PriorityNext ==
    \/ computePriority
    \/ Tick

PrioritySpec == PriorityInit /\ [][PriorityNext]_vars

-----------------------------------------------------------------------------
(* The trend functions on their own *)

\* the scoring and selection state at rest
RestIdle ==
    /\ LEARNING_CONSTANTS = DefaultConstants
    /\ fetchResult = "none"
    /\ letterStats = FreshRecord
    /\ card = NoCard
    /\ records = [l \in Letters |-> FreshRecord]
    /\ now = Epoch
    /\ userDifficulty = Rat(1, 2)
    /\ userId = <<"u1">>
    /\ availableLetters = Letters
    /\ StepIdle

\* a call of analyzePerformanceTrend(trendResults, trendAccuracy)
computePerformanceTrend ==
    /\ performanceTrend' = analyzePerformanceTrend(trendResults, trendAccuracy)
    /\ UNCHANGED <<trendResults, trendAccuracy, trendTimes, responseTimeTrend>>
    /\ UNCHANGED scoringVars
    /\ UNCHANGED stepVars
    /\ UNCHANGED priorityVars
    /\ UNCHANGED statsVars
    /\ UNCHANGED peripheralVars

PerformanceTrendInit ==
    /\ RestIdle
    /\ PriorityIdle
    /\ trendResults \in ResultsInputs
    /\ trendAccuracy \in AccuracyInputs
    /\ trendTimes = Undefined
    /\ performanceTrend = NoTrend
    /\ responseTimeTrend = NoTrend
    /\ serverLetters = <<>>
    /\ StatsIdle
    /\ PeripheralIdle

PerformanceTrendSpec == PerformanceTrendInit /\ [][computePerformanceTrend]_vars

\* a call of analyzeResponseTimeTrend(trendTimes)
computeResponseTimeTrend ==
    /\ responseTimeTrend' = analyzeResponseTimeTrend(trendTimes)
    /\ UNCHANGED <<trendResults, trendAccuracy, trendTimes, performanceTrend>>
    /\ UNCHANGED scoringVars
    /\ UNCHANGED stepVars
    /\ UNCHANGED priorityVars
    /\ UNCHANGED statsVars
    /\ UNCHANGED peripheralVars

ResponseTimeTrendInit ==
    /\ RestIdle
    /\ PriorityIdle
    /\ trendResults = Undefined
    /\ trendAccuracy = Undefined
    /\ trendTimes \in TimesInputs
    /\ performanceTrend = NoTrend
    /\ responseTimeTrend = NoTrend
    /\ serverLetters = <<>>
    /\ StatsIdle
    /\ PeripheralIdle

ResponseTimeTrendSpec == ResponseTimeTrendInit /\ [][computeResponseTimeTrend]_vars

-----------------------------------------------------------------------------
(* The statistics dashboard *)

\* what no operation of the dashboard touches
StatsFrame ==
    /\ UNCHANGED scoringVars
    /\ UNCHANGED <<records, now, userDifficulty, userId, availableLetters,
                   lettersToUse, request, loading, nextLetter, error,
                   brailleLetter>>
    /\ UNCHANGED priorityVars
    /\ UNCHANGED trendVars
    /\ UNCHANGED peripheralVars

StatsInit ==
    /\ LEARNING_CONSTANTS = DefaultConstants
    /\ fetchResult = "none"
    /\ letterStats = FreshRecord
    /\ card = NoCard
    /\ records = [l \in Letters |-> FreshRecord]
    /\ now = Epoch
    /\ userDifficulty = Rat(1, 2)
    /\ userId \in {<<>>, <<"u1">>}
    /\ availableLetters = Letters
    /\ StepIdle
    /\ PriorityIdle
    /\ TrendIdle
    /\ serverLetters \in ServerInputs
    /\ StatsIdle
    /\ PeripheralIdle

StatsNext ==
    \/ fetchStats /\ StatsFrame
    \/ getStatsResponded /\ StatsFrame
    \/ getStatsFailed /\ StatsFrame
    \/ resetProgress /\ StatsFrame
    \/ resetResponded /\ StatsFrame
    \/ resetFailed /\ StatsFrame
    \/ computeRecommendations /\ StatsFrame

StatsSpec == StatsInit /\ [][StatsNext]_vars

-----------------------------------------------------------------------------
(* The firmware on its own *)

\* what the firmware does not touch
LearningFrame ==
    /\ UNCHANGED scoringVars
    /\ UNCHANGED stepVars
    /\ UNCHANGED priorityVars
    /\ UNCHANGED trendVars
    /\ UNCHANGED statsVars

LearningIdle ==
    /\ RestIdle
    /\ PriorityIdle
    /\ TrendIdle
    /\ serverLetters = <<>>
    /\ StatsIdle

FirmwareInit ==
    /\ LearningIdle
    /\ PeripheralIdle

FirmwareNext ==
    \E payload \in PayloadInputs :
        mqttCallback(payload) /\ LearningFrame
            /\ UNCHANGED <<speechVars, micVars, sessionVars, tutorialVars,
                           lookupVars>>

FirmwareSpec == FirmwareInit /\ [][FirmwareNext]_vars

-----------------------------------------------------------------------------
(* The speech service on its own *)

SpeechFrame ==
    /\ LearningFrame
    /\ UNCHANGED firmwareVars
    /\ UNCHANGED micVars
    /\ UNCHANGED sessionVars
    /\ UNCHANGED tutorialVars
    /\ UNCHANGED lookupVars

SpeechInit ==
    /\ LearningIdle
    /\ FirmwareIdle
    /\ MicIdle
    /\ SessionIdle
    /\ TutorialIdle
    /\ LookupIdle
    /\ apiKey \in BOOLEAN
    /\ isListening = FALSE
    /\ mediaRecorder = 0
    /\ audioChunks = 0
    /\ recorders = <<>>
    /\ starting = 0
    /\ timers = {}
    /\ elapsed = 0
    /\ recognizing = {}
    /\ events = <<>>
    /\ hookListening = FALSE
    /\ speechError = NoError

SpeechNext ==
    \/ start /\ SpeechFrame
    \/ microphoneGranted /\ SpeechFrame
    \/ microphoneDenied /\ SpeechFrame
    \/ stop /\ SpeechFrame
    \/ abort /\ SpeechFrame
    \/ autoStop /\ SpeechFrame
    \/ secondPasses /\ SpeechFrame
    \/ \E recording \in 1..Len(recorders), hasData \in BOOLEAN :
           onstop(recording, hasData) /\ SpeechFrame
    \/ \E recording \in recognizing, callback \in RecognitionOutcomes :
           onloadend(recording, callback) /\ SpeechFrame

SpeechSpec == SpeechInit /\ [][SpeechNext]_vars

-----------------------------------------------------------------------------
(* Browser speech recognition on its own *)

MicFrame ==
    /\ LearningFrame
    /\ UNCHANGED firmwareVars
    /\ UNCHANGED speechVars
    /\ UNCHANGED sessionVars
    /\ UNCHANGED tutorialVars
    /\ UNCHANGED lookupVars

MicInit ==
    /\ LearningIdle
    /\ PeripheralIdle

MicNext ==
    \/ onstart /\ MicFrame
    \/ \E isFinal \in BOOLEAN, transcriptText \in TranscriptInputs :
           onresult(isFinal, transcriptText) /\ MicFrame
    \/ onerrorNoSpeech /\ MicFrame
    \/ \E kind \in ErrorKinds : onerrorOther(kind) /\ MicFrame
    \/ onend /\ MicFrame
    \/ retryTimer /\ MicFrame
    \/ handleMic /\ MicFrame
    \/ restartTimer /\ MicFrame

MicSpec == MicInit /\ [][MicNext]_vars

-----------------------------------------------------------------------------
(* The learning session on its own *)

SessionFrame ==
    /\ LearningFrame
    /\ UNCHANGED firmwareVars
    /\ UNCHANGED speechVars
    /\ UNCHANGED micVars
    /\ UNCHANGED tutorialVars
    /\ UNCHANGED lookupVars

SessionInit ==
    /\ LearningIdle
    /\ FirmwareIdle
    /\ SpeechIdle
    /\ MicIdle
    /\ TutorialIdle
    /\ LookupIdle
    /\ \E u \in Users \cup {NoUser} : SessionMounted(u)

SessionNext ==
    \/ \E u \in Users : startSessionResponded(u) /\ SessionFrame
    \/ \E u \in Users : startSessionFailed(u) /\ SessionFrame
    \/ \E u \in Users \cup {NoUser} : userChanged(u) /\ SessionFrame
    \/ unmount /\ SessionFrame

SessionSpec == SessionInit /\ [][SessionNext]_vars

-----------------------------------------------------------------------------
(* TutorialMode on its own *)

TutorialFrame ==
    /\ LearningFrame
    /\ UNCHANGED firmwareVars
    /\ UNCHANGED speechVars
    /\ UNCHANGED micVars
    /\ UNCHANGED sessionVars
    /\ UNCHANGED lookupVars

TutorialInit ==
    /\ LearningIdle
    /\ FirmwareIdle
    /\ SpeechIdle
    /\ MicIdle
    /\ SessionIdle
    /\ LookupIdle
    /\ \E position \in 0..LastIndex : TutorialAt(position)

TutorialNext ==
    \/ \E served \in BOOLEAN : pressNext(served) /\ TutorialFrame
    \/ \E served \in BOOLEAN : pressPrevious(served) /\ TutorialFrame
    \/ \E command \in {"next", "previous"}, served \in BOOLEAN :
           handlePractice(command, served) /\ TutorialFrame
    \/ togglePracticeMode /\ TutorialFrame
    \/ \E i \in 1..MaxInFlight : answered(i) /\ TutorialFrame

TutorialSpec == TutorialInit /\ [][TutorialNext]_vars

-----------------------------------------------------------------------------
(* getLetterDots on its own *)

LookupFrame ==
    /\ LearningFrame
    /\ UNCHANGED firmwareVars
    /\ UNCHANGED speechVars
    /\ UNCHANGED micVars
    /\ UNCHANGED sessionVars
    /\ UNCHANGED tutorialVars

LookupInit ==
    /\ LearningIdle
    /\ PeripheralIdle

LookupNext == \E text \in TextInputs : lookUp(text) /\ LookupFrame

LookupSpec == LookupInit /\ [][LookupNext]_vars

card1 == card[1]
Computed == card # NoCard

\* the card on display was computed from the current record and thresholds
Current == Computed /\ card1 = LetterCard(letterStats)

InUnit(x) == RLe(R(0), x) /\ RLe(x, R(1))

-----------------------------------------------------------------------------
(* Properties of the scoring engine *)

\* C1: for every LetterStats value, malformed ones included (a negative
\* streak, correct > attempts, any response time), the skill score s that
\* calculateSkillScore returns satisfies 0 <= s <= 1.
C1_SkillScoreInUnitInterval ==
    Computed => InUnit(card1.skillScore)

\* C2: calculateAccuracy returns a value in [0,1] for every record; it is 0
\* when attempts = 0 and exactly correct/attempts when attempts > 0 and
\* 0 <= correct <= attempts.
C2_AccuracyContract ==
    LET a == calculateAccuracy(letterStats)
        n == letterStats.attempts
        c == letterStats.correct
    IN  /\ InUnit(a)
        /\ n = 0 => a = R(0)
        /\ (n > 0 /\ 0 <= c /\ c <= n) => a[1] * n = c * a[2]

C2_Witness ==
    /\ Current
    /\ letterStats.attempts > 0
    /\ letterStats.correct > letterStats.attempts
    /\ card1.accuracy = R(1)

\* C3: calculateConfidenceInterval returns 0 <= lower <= upper <= 1 for every
\* record, and exactly {lower: 0, upper: 1} when attempts < 2.
C3_ConfidenceInterval ==
    LET ci == calculateConfidenceInterval(letterStats)
    IN  /\ RLe(R(0), ci.lower)
        /\ RLe(ci.lower, ci.upper)
        /\ RLe(ci.upper, R(1))
        /\ letterStats.attempts < 2 => (ci.lower = R(0) /\ ci.upper = R(1))

C3_Witness ==
    /\ Current
    /\ letterStats.attempts >= 2
    /\ 0 < letterStats.correct
    /\ letterStats.correct < letterStats.attempts
    /\ card1.confidenceInterval.lower = R(0)
    /\ RLt(card1.confidenceInterval.upper, R(1))

\* C4 as stated: for every record with attempts = 0, whatever its other
\* fields: accuracy = 0, skill_score = 0 and mastery_level = "learning".
C4_ZeroAttempts_Original ==
    (Current /\ letterStats.attempts = 0) =>
        /\ card1.accuracy = R(0)
        /\ card1.skillScore = R(0)
        /\ card1.masteryLevel = "learning"

\* C4 as amended: for every record with attempts = 0: accuracy = 0 and
\* skill_score = 0; mastery_level = "learning" provided
\* MIN_ATTEMPTS_FOR_MASTERY >= 1 (as with the default 5).
C4_ZeroAttempts ==
    letterStats.attempts = 0 =>
        /\ calculateAccuracy(letterStats) = R(0)
        /\ calculateSkillScore(letterStats) = R(0)
        /\ LEARNING_CONSTANTS.MIN_ATTEMPTS_FOR_MASTERY >= 1
             => calculateMasteryLevel(letterStats) = "learning"

C4_Witness ==
    /\ Current
    /\ letterStats.attempts = 0
    /\ letterStats.correct > 0
    /\ LEARNING_CONSTANTS.MIN_ATTEMPTS_FOR_MASTERY >= 1
    /\ card1.masteryLevel = "learning"

\* C5: with the default thresholds (5, 0.85, 0.6) calculateMasteryLevel
\* returns "learning" if attempts < 5, otherwise "mastered" if
\* skill_score >= 0.85, otherwise "learning" if skill_score >= 0.6,
\* otherwise "weak", and no other value.
C5_MasteryLevels ==
    LEARNING_CONSTANTS = DefaultConstants =>
        LET s == calculateSkillScore(letterStats)
            level == calculateMasteryLevel(letterStats)
        IN  /\ level \in {"learning", "mastered", "weak"}
            /\ level = IF letterStats.attempts < 5 THEN "learning"
                       ELSE IF 100 * s[1] >= 85 * s[2] THEN "mastered"
                       ELSE IF 10 * s[1] >= 6 * s[2] THEN "learning"
                       ELSE "weak"

C5_Witness ==
    /\ Current
    /\ LEARNING_CONSTANTS = DefaultConstants
    /\ letterStats.attempts = 5
    /\ card1.masteryLevel = "mastered"

\* the Bernoulli variance k*(L-k)/L^2 of the last at most 10 results, and
\* the consistency bonus the specification derives from it
ConsistencyFormula(results) ==
    IF Len(results) < 5 THEN R(0)
    ELSE LET L == Min(10, Len(results))
             k == Cardinality({i \in (Len(results) - L + 1)..Len(results) : results[i]})
         IN  RMul(Rat(5, 100), RMax(R(0), RSub(R(1), RMul(R(4), Rat(k * (L - k), L * L)))))

\* min(1, 0.6*accuracy + 0.25*speed + min(0.1, 0.02*streak) + consistency)
\* rounded to 3 decimals
SkillFormula(stats, speed) ==
    LET acc == IF stats.correct <= 0 THEN R(0)
               ELSE IF stats.correct >= stats.attempts THEN R(1)
               ELSE Rat(stats.correct, stats.attempts)
        streakBonus == IF stats.streak >= 5 THEN Rat(1, 10) ELSE Rat(2 * stats.streak, 100)
        total == RAdd(RAdd(RMul(Rat(3, 5), acc), RMul(Rat(1, 4), speed)),
                      RAdd(streakBonus, ConsistencyFormula(stats.recent_results)))
        capped == IF RLe(R(1), total) THEN R(1) ELSE total
    IN  Rat(Floor(RAdd(RMul(R(1000), capped), Rat(1, 2))), 1000)

ScenarioStats(correct) ==
    [ attempts |-> 10, correct |-> correct, avg_response_time |-> Rat(2, 1),
      streak |-> 3, recent_results |-> TenTrue ]

\* C6 as stated: for every record with attempts > 0 the skill score is
\* min(1, 0.6*accuracy + 0.25*speed_score + min(0.1, 0.02*streak) +
\* consistency_bonus) rounded to 3 decimals with
\* speed_score = max(0, 1 - avg_response_time/6.0); the record {attempts 10,
\* correct 9, avg_response_time 2.0, streak 3, ten correct results} scores
\* 0.817 ("learning") and with correct = 10 it scores 0.877 ("mastered").
C6_SkillFormula_Original ==
    Current =>
        /\ letterStats.attempts > 0 =>
             card1.skillScore =
                SkillFormula(letterStats,
                    RMax(R(0), RSub(R(1), RDiv(letterStats.avg_response_time, R(6)))))
        /\ letterStats = ScenarioStats(9) =>
             (card1.skillScore = Rat(817, 1000) /\ card1.masteryLevel = "learning")
        /\ letterStats = ScenarioStats(10) =>
             (card1.skillScore = Rat(877, 1000) /\ card1.masteryLevel = "mastered")

\* C6 as amended: the same formula with speed_score = 0 when
\* avg_response_time < 0 or MAX_RESPONSE_TIME <= 0 and otherwise
\* max(0, 1 - avg_response_time/MAX_RESPONSE_TIME), MAX_RESPONSE_TIME being
\* the configured threshold (6.0 by default); the two scenario records score
\* 0.817 ("learning") and 0.877 ("mastered") under the default thresholds.
C6_SkillFormula ==
    LET maxTime == LEARNING_CONSTANTS.MAX_RESPONSE_TIME
        rt == letterStats.avg_response_time
        speed == IF rt[1] < 0 \/ maxTime[1] <= 0 THEN R(0)
                 ELSE RMax(R(0), RSub(R(1), RDiv(rt, maxTime)))
    IN  /\ letterStats.attempts > 0 =>
             calculateSkillScore(letterStats) = SkillFormula(letterStats, speed)
        /\ (LEARNING_CONSTANTS = DefaultConstants /\ letterStats = ScenarioStats(9)) =>
             (calculateSkillScore(letterStats) = Rat(817, 1000)
                /\ calculateMasteryLevel(letterStats) = "learning")
        /\ (LEARNING_CONSTANTS = DefaultConstants /\ letterStats = ScenarioStats(10)) =>
             (calculateSkillScore(letterStats) = Rat(877, 1000)
                /\ calculateMasteryLevel(letterStats) = "mastered")

C6_Witness ==
    /\ Current
    /\ LEARNING_CONSTANTS = DefaultConstants
    /\ letterStats = ScenarioStats(9)
    /\ card1.skillScore = Rat(817, 1000)
    /\ card1.masteryLevel = "learning"

\* C7: for two records that differ only in correct, correct1 <= correct2,
\* the accuracy, skill score and probability_correct of the second are each
\* >= those of the first.
C7_MonotoneInCorrect ==
    Current =>
        \A c2 \in -1..(MaxAttempts + 1) :
            c2 >= letterStats.correct =>
                LET second == LetterCard([letterStats EXCEPT !.correct = c2])
                IN  /\ RLe(card1.accuracy, second.accuracy)
                    /\ RLe(card1.skillScore, second.skillScore)
                    /\ RLe(card1.probabilityCorrect, second.probabilityCorrect)

\* C8: computing the metrics of the same unmodified record twice gives the
\* same output, whatever runs between the two computations (a
\* fetchLearningConstants request completing included).
C8_Idempotent ==
    [][(Computed /\ card' # NoCard /\ letterStats' = letterStats) => card' = card]_vars

\* C9: calculateProbabilityCorrect returns (c + 1)/(n + 2) rounded to 3
\* decimals, n = max(0, attempts), c = correct clamped into [0, n]; the
\* unrounded value lies strictly between 0 and 1, and the result is 0.5 for a
\* record with no attempts.
C9_ProbabilityCorrect ==
    LET n == IF letterStats.attempts < 0 THEN 0 ELSE letterStats.attempts
        c == IF letterStats.correct < 0 THEN 0
             ELSE IF letterStats.correct > n THEN n ELSE letterStats.correct
        prob == calculateProbabilityCorrect(letterStats)
    IN  /\ prob = Rat((2000 * (c + 1) + (n + 2)) \div (2 * (n + 2)), 1000)
        /\ 0 < c + 1 /\ c + 1 < n + 2
        /\ letterStats.attempts = 0 => prob = Rat(1, 2)

C9_Witness ==
    /\ Current
    /\ letterStats.attempts > 0
    /\ letterStats.correct > letterStats.attempts
    /\ card1.probabilityCorrect = Rat(MathRound(Rat(1000 * (letterStats.attempts + 1),
                                                     letterStats.attempts + 2)), 1000)

-----------------------------------------------------------------------------
(* Letter selection *)

\* letter l goes before letter m: higher priority, then fewer attempts, then
\* earlier in the alphabet
Preferred(l, m) ==
    LET pl == calculateSelectionPriority(records[l], userDifficulty)
        pm == calculateSelectionPriority(records[m], userDifficulty)
    IN  \/ RLt(pm, pl)
        \/ /\ pl = pm
           /\ \/ records[l].attempts < records[m].attempts
              \/ /\ records[l].attempts = records[m].attempts
                 /\ LetterIndex(l) < LetterIndex(m)

\* the step request in flight is answered
StepAnswered == loading /\ ~loading' /\ error' = NoError

-----------------------------------------------------------------------------
(* Properties of the priority function *)

priority1 == priority[1]

\* the priority on record was computed from the candidate at this clock
PriorityCurrent ==
    /\ priority # NoPriority
    /\ priority1.parts = PriorityParts(candidate, userDifficulty)

Between(lo, x, hi) == RLe(R(lo), x) /\ RLe(x, R(hi))

\* C11: the five components calculateSelectionPriority adds lie in [0,30]
\* (review urgency), [0,25] (retention deficit), [0,15] (trend), [0,20]
\* (difficulty match) and [0,10] (recency), for every record, learner level
\* in [0,1] and clock, and the total lies in [0,100].
C11_ComponentsInRange ==
    PriorityCurrent =>
        /\ Between(0, priority1.parts.review, 30)
        /\ Between(0, priority1.parts.deficit, 25)
        /\ Between(0, priority1.parts.trend, 15)
        /\ Between(0, priority1.parts.difficultyMatch, 20)
        /\ Between(0, priority1.parts.recency, 10)
        /\ Between(0, priority1.total, 100)

\* the retention estimate of a record: the retention it carries, otherwise
\* the forgetting-curve estimate
RetentionEstimate(stats) ==
    IF stats.retention # Undefined THEN stats.retention[1]
    ELSE calculateRetentionProbability(OrInt(stats.last_seen, now),
                                       OrNum(stats.easiness_factor, Rat(5, 2)),
                                       OrInt(stats.repetition, 0))

\* C12: the retention-deficit component is (1 - r) * 25 when r < 0.9 and 0
\* otherwise, r the retention the record carries (r = 0 included) or, when
\* it carries none, the forgetting-curve estimate.
C12_RetentionDeficit ==
    PriorityCurrent =>
        LET r == RetentionEstimate(candidate)
        IN  priority1.parts.deficit =
                IF RLt(r, Rat(9, 10)) THEN RMul(RSub(R(1), r), R(25)) ELSE R(0)

\* C13: the difficulty-match component is 20 * (1 - |d - u|), d the
\* difficulty the record carries (d = 0 included) and 0.5 only when it
\* carries none, u the learner's difficulty level.
C13_DifficultyMatch ==
    PriorityCurrent =>
        LET d == IF candidate.difficulty # Undefined
                 THEN candidate.difficulty[1] ELSE Rat(1, 2)
            gap == RSub(d, userDifficulty)
        IN  priority1.parts.difficultyMatch =
                RMul(R(20), RSub(R(1), IF gap[1] < 0 THEN RNeg(gap) ELSE gap))

-----------------------------------------------------------------------------
(* Properties of the trend functions *)

\* C14: analyzePerformanceTrend returns "insufficient_data" exactly when
\* fewer than 3 results (or none) are supplied; otherwise, m the fraction
\* correct among the last min(5, n) results, "improving" iff
\* m - overall_accuracy > 0.15, "declining" iff m - overall_accuracy < -0.15
\* and "stable" in every other case, a difference of exactly 0.15 or -0.15
\* included.
C14_PerformanceTrend ==
    performanceTrend # NoTrend =>
        LET n == IF trendResults = Undefined THEN 0 ELSE Len(trendResults[1])
            last == SliceLast(trendResults[1], Min(5, n))
            m == Rat(CountTrue(last), Len(last))
            diff == RSub(m, Coalesce(trendAccuracy, R(0)))
        IN  /\ performanceTrend = "insufficient_data" <=> n < 3
            /\ n >= 3 =>
                 /\ performanceTrend = "improving" <=> RLt(Rat(15, 100), diff)
                 /\ performanceTrend = "declining" <=> RLt(diff, Rat(-15, 100))
                 /\ performanceTrend = "stable" <=>
                        (RLe(Rat(-15, 100), diff) /\ RLe(diff, Rat(15, 100)))

\* C15: analyzeResponseTimeTrend returns "insufficient_data" for fewer than
\* 3 times and "stable" for 3 to 5 times; for n > 5 it compares the mean of
\* the last 5 times with the mean of the first n - 5: "speeding_up" iff
\* recent < 0.8 * older, "slowing_down" iff recent > 1.2 * older, otherwise
\* "stable"; both means have a non-empty list to divide by.
C15_ResponseTimeTrend ==
    responseTimeTrend # NoTrend =>
        LET n == IF trendTimes = Undefined THEN 0 ELSE Len(trendTimes[1])
            recent == Rat(SumTimes(SubSeq(trendTimes[1], n - 4, n)), 5)
            older == Rat(SumTimes(SubSeq(trendTimes[1], 1, n - 5)), n - 5)
        IN  /\ n < 3 => responseTimeTrend = "insufficient_data"
            /\ (3 <= n /\ n <= 5) => responseTimeTrend = "stable"
            /\ n > 5 =>
                 /\ responseTimeTrend = "speeding_up" <=>
                        RLt(recent, RMul(Rat(8, 10), older))
                 /\ responseTimeTrend = "slowing_down" <=>
                        RLt(RMul(Rat(12, 10), older), recent)
                 /\ responseTimeTrend \in {"speeding_up", "slowing_down", "stable"}

-----------------------------------------------------------------------------
(* Properties of the insights and the recommendations *)

insights1 == insights[1]

\* C16: for every list of letter records, malformed ones included,
\* calculateLearningInsights reports an overallAccuracy in [0,1]: total
\* correct divided by total attempts, and 0 when there are no attempts.
C16_OverallAccuracyInUnit ==
    insights # <<>> =>
        LET totalAttempts == TotalAttempts(learnerLetters)
            totalCorrect == TotalCorrect(learnerLetters)
        IN  /\ InUnit(insights1.overallAccuracy)
            /\ totalAttempts = 0 => insights1.overallAccuracy = R(0)
            /\ totalAttempts > 0 =>
                   insights1.overallAccuracy = Round3(Rat(totalCorrect, totalAttempts))

Eligible == {i \in 1..Len(learnerLetters) : learnerLetters[i].attempts >= 3}

\* C18: the strongest and the weakest letter are chosen among the records
\* with attempts >= 3 only: both are null exactly when there is none;
\* otherwise the strongest has the maximum and the weakest the minimum
\* skill score of those records, and no record with fewer than 3 attempts
\* is reported.
C18_StrongestWeakestAmongEligible ==
    insights # <<>> =>
        /\ insights1.strongestLetter = NoLetter <=> Eligible = {}
        /\ insights1.weakestLetter = NoLetter <=> Eligible = {}
        /\ Eligible # {} =>
              /\ \E i \in Eligible :
                    /\ learnerLetters[i].letter = insights1.strongestLetter
                    /\ \A j \in Eligible :
                          RLe(ScoreOf(learnerLetters[j]), ScoreOf(learnerLetters[i]))
              /\ \E i \in Eligible :
                    /\ learnerLetters[i].letter = insights1.weakestLetter
                    /\ \A j \in Eligible :
                          RLe(ScoreOf(learnerLetters[i]), ScoreOf(learnerLetters[j]))

\* the first record has two attempts and the highest score of the three, and
\* the other two are reported
C18_Witness ==
    /\ insights # <<>>
    /\ Len(learnerLetters) = 3
    /\ learnerLetters[1].attempts = 2
    /\ RLt(ScoreOf(learnerLetters[3]), ScoreOf(learnerLetters[1]))
    /\ RLt(ScoreOf(learnerLetters[2]), ScoreOf(learnerLetters[3]))
    /\ insights1.strongestLetter = "c"
    /\ insights1.weakestLetter = "b"

\* the recommendation types and ranks the triggers call for
ExpectedRecommendations(list) ==
    LET urgent == \E i \in 1..Len(list) :
                     /\ list[i].needs_review
                     /\ RLt(IF list[i].retention = Undefined THEN R(1)
                            ELSE list[i].retention[1], Rat(7, 10))
        declining == \E i \in 1..Len(list) : list[i].trend = "declining"
        mastered == Cardinality({i \in 1..Len(list) : list[i].mastery_level = "mastered"})
    IN  (IF urgent THEN << <<"urgent_review", "high">> >> ELSE <<>>)
        \o (IF declining THEN << <<"declining_performance", "medium">> >> ELSE <<>>)
        \o (IF 0 < mastered /\ mastered < Len(list)
            THEN << <<"progress_update", "low">> >> ELSE <<>>)

\* C19: generateRecommendations returns exactly the sub-sequence of
\* urgent_review (high), declining_performance (medium), progress_update
\* (low), in that order, whose trigger holds: some letter with needs_review
\* and a retention below 0.7 (no retention counting as fully retained), some
\* letter with a declining trend, 0 < mastered letters < letters; and it
\* leaves its input as it was.
C19_Recommendations ==
    [][(recommendations' # recommendations /\ learnerStats # NoStats) =>
          /\ learnerStats' = learnerStats
          /\ LET result == recommendations'[1]
             IN  [i \in 1..Len(result) |-> <<result[i].type, result[i].priority>>]
                    = ExpectedRecommendations(learnerStats[1].letters[1])]_vars

-----------------------------------------------------------------------------
(* Properties of the reset *)

\* every record of the list is the all-default LetterStats of its letter
AllDefault(held) ==
    \A i \in 1..Len(held) : held[i] = DefaultLetterStats(held[i].letter)

\* the step leaves the client holding the statistics of the reset state
HoldsResetState ==
    /\ learnerStats' = <<StatsResponse(ResetLetters(serverLetters'))>>
    /\ AllDefault(learnerLetters')
    /\ insights' = <<calculateLearningInsights(learnerLetters')>>

\* the reset command leaves every record all-default, changes nothing when
\* they already are, and they stay so while resetProgress refreshes
ResetClearsRecords ==
    /\ (statsOp = "reset" /\ statsOp' = "refresh") =>
           /\ AllDefault(serverLetters')
           /\ AllDefault(serverLetters) => serverLetters' = serverLetters
    /\ statsOp = "refresh" => AllDefault(serverLetters) /\ AllDefault(serverLetters')

\* C20 as stated: after the reset command, issued once or several times,
\* every record of the learner is the all-default LetterStats, and whenever
\* resetProgress completes after it the client holds the statistics of the
\* reset state.
C20_ResetRoundTrip_Original ==
    [][/\ ResetClearsRecords
       /\ (statsOp = "refresh" /\ statsOp' = "idle") => HoldsResetState]_vars

\* C20: after the reset command, issued once or several times, every record
\* of the learner is the all-default LetterStats, and whenever resetProgress
\* completes without an error the client holds the statistics of the reset
\* state; when it completes with an error the client keeps the statistics
\* it held before.
C20_ResetRoundTrip ==
    [][/\ ResetClearsRecords
       /\ (statsOp \in {"reset", "refresh"} /\ statsOp' = "idle"
              /\ statsError' = NoError) => HoldsResetState
       /\ (statsOp \in {"reset", "refresh"} /\ statsOp' = "idle"
              /\ statsError' # NoError) =>
                 UNCHANGED <<learnerStats, learnerLetters, insights>>]_vars

\* three records were reset and refreshed, and a second reset in a row has
\* been served
C20_Witness ==
    /\ statsOp = "refresh"
    /\ Len(serverLetters) = 3
    /\ AllDefault(serverLetters)
    /\ learnerStats = <<StatsResponse(serverLetters)>>
    /\ learnerLetters = serverLetters
    /\ insights1.totalAttempts = 0

-----------------------------------------------------------------------------
(* Properties of the firmware *)

\* the dots whose servo is raised
RaisedDots == {j \in ServoIndexes : servos[j] = RAISED_ANGLE}

\* the payload last received
received == message[1]

\* C21: for every letter A-Z received, exactly the servos of the dots
\* documented for that letter in the braillePatterns table are raised and
\* the other servos are lowered.
C21_DocumentedDotsRaised ==
    (message # NoMessage /\ Len(received) > 0
        /\ received[1] \in CodeUpperA..CodeUpperZ) =>
       /\ RaisedDots = DocumentedDots[received[1] - CodeUpperA + 1]
       /\ \A j \in ServoIndexes \ RaisedDots : servos[j] = LOWERED_ANGLE

\* the position in the alphabet of a letter byte of either case
AlphabetPosition(b) ==
    IF b \in CodeLowerA..CodeLowerZ THEN b - CodeLowerA + 1 ELSE b - CodeUpperA + 1

IsLetterByte(b) == b \in (CodeUpperA..CodeUpperZ) \cup (CodeLowerA..CodeLowerZ)

\* servo j stands at the angle bit j-1 of the letter's table entry asks for
ShowsPattern(angles, position) ==
    \A j \in ServoIndexes :
        angles[j] = IF BitOf(braillePatterns[position], j - 1) = 1
                    THEN RAISED_ANGLE ELSE LOWERED_ANGLE

\* C22: an empty payload leaves the six servo positions unchanged; a payload
\* whose first byte is a letter sets them to that letter's pattern, the same
\* for upper and lower case; any other first byte lowers all six; the bytes
\* after the first have no influence.
C22_CallbackByFirstByte ==
    [][LET payload == message'[1]
       IN  /\ Len(payload) = 0 => servos' = servos
           /\ (Len(payload) > 0 /\ IsLetterByte(payload[1])) =>
                 ShowsPattern(servos', AlphabetPosition(payload[1]))
           /\ (Len(payload) > 0 /\ ~IsLetterByte(payload[1])) =>
                 \A j \in ServoIndexes : servos'[j] = LOWERED_ANGLE]_vars

\* a lower-case letter followed by another byte has been received and its
\* pattern, with a raised dot, is shown
C22_Witness ==
    /\ message # NoMessage
    /\ Len(received) = 2
    /\ received[1] \in CodeLowerA..CodeLowerZ
    /\ ShowsPattern(servos, AlphabetPosition(received[1]))
    /\ RaisedDots # {}

-----------------------------------------------------------------------------
(* Properties of the speech service *)

Recordings == 1..Len(recorders)

\* C23: each recording is stopped 5 seconds after it began unless stop() or
\* abort() ended it earlier, and no recording is stopped by the auto-stop
\* timer armed for an earlier recording.
C23_AutoStopOwnRecording ==
    \A r \in Recordings :
        /\ recorders[r].state = "recording" =>
              elapsed <= recorders[r].startedAt + AUTO_STOP_SECONDS
        /\ recorders[r].stoppedBy \in {NotStopped, ByCall, r}
        /\ recorders[r].stoppedBy = r =>
              recorders[r].stoppedAt = recorders[r].startedAt + AUTO_STOP_SECONDS

Positions == 1..Len(events)

\* C28: the outcome callback of a recording (onResult, onNoSpeech or
\* onError) is delivered before that recording's onEnd.
C28_OutcomeBeforeEnd ==
    \A i \in Positions :
        events[i].callback = "onEnd" =>
            \E j \in 1..(i - 1) :
                /\ events[j].of = events[i].of
                /\ events[j].callback \in RecognitionOutcomes

-----------------------------------------------------------------------------
(* Properties of the browser speech recognition *)

\* the recognizer is running: started and not yet ended
RecognizerRunning == recognition # "idle"

\* a retry that will restart the recognizer is waiting for its timer
RetryPending == retryTimers > 0 /\ pendingRetryRef

\* C24: listening = true implies that the recognizer is active or an
\* automatic retry is still pending.
C24_ListeningMeansRunning ==
    listening => (RecognizerRunning \/ RetryPending)

\* C25: a no-speech error schedules an automatic restart, at most
\* maxRetries = 2 times in a row; the third consecutive no-speech ends
\* listening with the "No speech detected" error and the retry count back at
\* 0; a recognition result, any other error and a user stop reset the retry
\* count to 0 and cancel a pending retry; the retry count stays in 0..2.
C25_RetriesBounded ==
    [][/\ retryCountRef' \in 0..maxRetries
       /\ retryCount' = retryCountRef'
       /\ restartsInRow' <= maxRetries
       /\ (lastEvent' = "no-speech" /\ restartsInRow < maxRetries) =>
             /\ pendingRetryRef'
             /\ retryCountRef' = retryCountRef + 1
       /\ (lastEvent' = "no-speech" /\ restartsInRow = maxRetries) =>
             /\ ~pendingRetryRef'
             /\ retryCountRef' = 0
             /\ micError' = NoSpeechError
       /\ (lastEvent' = "onend" /\ ~pendingRetryRef) => ~listening'
       /\ (lastEvent' = "retryTimer" /\ pendingRetryRef /\ recognition = "idle") =>
             recognition' = "starting"
       /\ lastEvent' \in {"onresult", "error", "stop"} =>
             /\ retryCountRef' = 0
             /\ ~pendingRetryRef']_vars

\* the third no-speech in a row has ended listening
C25_Witness ==
    /\ lastEvent = "onend"
    /\ micError = NoSpeechError
    /\ ~listening
    /\ retryCount = 0
    /\ recognition = "idle"

-----------------------------------------------------------------------------
(* Properties of the learning session *)

\* C26: every session whose id was stored is ended by an endSession call for
\* that id when the component unmounts or the user changes: once the
\* component is unmounted every stored id has been ended, and while it is
\* mounted every stored id other than the current one has been.
C26_StartedSessionsEnded ==
    /\ ~mounted => storedSessions \subseteq endCalls
    /\ mounted => (storedSessions \ {sessionId}) \subseteq endCalls

-----------------------------------------------------------------------------
(* Properties of TutorialMode *)

\* C27: currentIndex stays within 0..25 and, whenever no request is in
\* flight, equals the alphabet position of the displayed currentLetter.
C27_IndexMatchesLetter ==
    /\ currentIndex \in 0..LastIndex
    /\ inFlight = <<>> => currentIndex = currentLetter

-----------------------------------------------------------------------------
(* Properties of getLetterDots *)

\* the argument of the last call
looked == lookupLetter[1]

\* the dots a call returned
ReturnedDots == {lookupDots[j] : j \in 1..Len(lookupDots)}

IsLetterText(text) == Len(text) = 1 /\ IsLetterByte(text[1])

\* C29: getLetterDots(letter) is the documented dots of the firmware's
\* braillePatterns entry for every letter, and the empty list for every
\* argument that is not a letter.
C29_DotsAsDocumented ==
    lookupLetter # <<>> =>
        IF IsLetterText(looked)
        THEN ReturnedDots = DocumentedDots[AlphabetPosition(looked[1])]
        ELSE lookupDots = <<>>

====
